---- MODULE Spec2Model ----
(***************************************************************************)
(* Animated-caption rendering pipeline of firebase-text-animator.          *)
(*                                                                         *)
(*   Spec        the client-side render job (handleDownload with the       *)
(*               embedded encoder, unnamed/part_005 lines 131-292)         *)
(*   SpecActive  the active-segment computation (Array.filter)             *)
(*   SpecEscape  the drawtext text/path escapers and the filter builder    *)
(*   SpecServer  the server-side POST handler (api/render-video/route.ts)  *)
(*   SpecFair    Spec with every step of the job eventually taken          *)
(*   SpecMemo    the memoised totalDuration across renders                 *)
(*   SpecPlayback  the play/pause control and the timeupdate handler       *)
(*   SpecHidden  the job of animation-preview.tsx that hides the media     *)
(*   SpecBuilder the per-segment drawtext list of route.ts                 *)
(*   SpecPipes, SpecPipeFaults  the subprocess pipes, without and with     *)
(*               stream errors                                             *)
(*   SpecRaw, SpecLegacy, SpecCleanup, SpecSession  the other variants     *)
(*                                                                         *)
(* Times are integer milliseconds.  A progress value is an exact fraction  *)
(* [n, d] (n/d percent), compared by cross multiplication.                 *)
(***************************************************************************)
EXTENDS Integers, Sequences, FiniteSets, TLC

VARIABLES
  \* ---- client component (AnimationPreview) ----
  data,            \* props.data: the timeline, a sequence of segments
  isVideo,         \* mediaType starts with "video/"
  totalDuration,   \* the memoised totalDuration (ms)
  ffmpegLoaded,    \* React state ffmpegLoaded
  isRendering,     \* React state isRendering
  renderProgress,  \* React state renderProgress, a fraction [n, d]
  renderMessage,   \* React state renderMessage
  currentSegments, \* React state currentSegments: indices of data on screen
  mediaTime,       \* mediaRef.current.currentTime (ms)
  pc,              \* the await handleDownload is suspended at
  frame,           \* loop variable i of the capture loop / write loop
  duration,        \* const duration of the running job
  numFrames,       \* const numFrames of the running job
  cleanupFiles,    \* const cleanupFiles: names registered for deletion
  fs,              \* files in the embedded encoder's virtual filesystem
  audioExists,     \* let audioExists
  capture,         \* per frame: state of its htmlToImage.toPng promise
  image,           \* per frame: what the resolved capture shows
  execP,           \* last progress step the running exec has reported
  cleanupIdx,      \* position of the finally block's deletion loop
  toast,           \* last toast shown
  \* ---- active-segment computation on its own ----
  actSegs,         \* the segment list given to the filter
  actTime,         \* the query time
  actResult,       \* the filter's result (indices of actSegs)
  actDone,         \* the filter has run
  \* ---- escaping and the filter-graph builder on their own ----
  escRaw,          \* the raw caption / path, a sequence of characters
  escCount,        \* number of segments carrying that caption
  escText,         \* escapeFFmpegDrawtext(escRaw)
  escFont,         \* escapeWindowsPathForFFmpeg(escRaw)
  escExpr,         \* the drawtextFilters string
  escPc,           \* "raw", "escaped", "built"
  escSegs,         \* the validated segments given to the builder
  \* ---- server-side POST handler ----
  srvBody,         \* the request body
  srvFfmpegPath,   \* process.env.FFMPEG_PATH is set
  srvFontMap,      \* the resolved fontMap (keys)
  srvPc,           \* the await POST is suspended at
  srvFetched,      \* fetch(mediaUrl) has been issued
  srvSpawned,      \* spawn(ffmpegPath, ...) has been called
  srvFilters,      \* the draw operations built from the segments
  srvStream,       \* the passthrough stream behind the video response
  srvFetchResult,  \* how fetch(mediaUrl) settled
  srvStderr,       \* the stderr text collected from the subprocess
  srvClose,        \* the 'close' event of the subprocess, once it fired
  srvStreamError,  \* the error the passthrough stream was destroyed with
  legDir,          \* public/fonts: whether readdir succeeds, and its files
  legInitPc,       \* where the start-up call of initializeFonts stands
  legFontMap,      \* the module-level fontMap
  legFfmpegPath,   \* process.env.FFMPEG_PATH is set
  legReq,          \* the requests in flight, each with its position
  clnFs,           \* the files in the encoder's virtual filesystem
  clnNumFrames,    \* numFrames of the job being cleaned up
  clnStep,         \* the statement of the cleanup block that runs next
  clnAttempted,    \* the files whose deletion was attempted
  clnPc,           \* where the cleanup block stands
  unmounted,       \* the component of the running job has been unmounted
  elementDuration, \* mediaRef.current.duration (ms), 0 while not known
  isPlaying,       \* React state isPlaying
  playRequest,     \* the promise of the last media.play() call
  mediaOpacity,    \* mediaRef.current.style.opacity
  sesFile,         \* the name of the file picked on the page
  sesData,         \* animationData is set
  sesInst,         \* the FFmpeg instances created, one per mount
  sesJobs,         \* the instance each started job ran on
  pipSource,       \* source bytes not yet written to the subprocess
  pipEnded,        \* stdin of the subprocess has been ended
  pipStdin,        \* bytes waiting in the stdin pipe
  pipStdout,       \* bytes waiting in the stdout pipe
  pipPass,         \* bytes waiting in the passthrough stream
  pipProc,         \* the subprocess: running, exited, closed
  pipConsumer,     \* the reader of the response body
  pipStream,       \* the passthrough stream: open, ended, destroyed
  pipSourceError,  \* the source media stream has failed
  pipStdinError,   \* the 'error' event of the subprocess's stdin, if any
  srvResponse      \* the response returned to the caller

clientVars == << data, isVideo, totalDuration, ffmpegLoaded, isRendering,
                 renderProgress, renderMessage, currentSegments, mediaTime,
                 pc, frame, duration, numFrames, cleanupFiles, fs,
                 audioExists, capture, image, execP, cleanupIdx, toast >>

activeVars == << actSegs, actTime, actResult, actDone >>

escapeVars == << escRaw, escCount, escText, escFont, escExpr, escPc,
                 escSegs >>

serverProcVars == << srvFetchResult, srvStderr, srvClose, srvStreamError >>

serverVars == << srvBody, srvFfmpegPath, srvFontMap, srvPc, srvFetched,
                 srvSpawned, srvFilters, srvStream, srvResponse,
                 serverProcVars >>

legacyVars == << legDir, legInitPc, legFontMap, legFfmpegPath, legReq >>

cleanupVars == << clnFs, clnNumFrames, clnStep, clnAttempted, clnPc >>

pageVars == << unmounted, elementDuration, isPlaying, playRequest,
              mediaOpacity >>

sessionVars == << sesFile, sesData, sesInst, sesJobs >>

pipeVars == << pipSource, pipEnded, pipStdin, pipStdout, pipPass, pipProc,
               pipConsumer, pipStream, pipSourceError, pipStdinError >>

vars == << clientVars, activeVars, escapeVars, serverVars, legacyVars,
           cleanupVars, pageVars, sessionVars, pipeVars >>

----------------------------------------------------------------------------
(* Bounds of the model *)

MaxSegs == 1       \* segments in a client job's timeline
MaxTick == 1       \* segment times are 0, 40, ..., 40 * MaxTick ms
MaxDur == 2        \* media durations are 50, ..., 50 * MaxDur ms
ProgSteps == 2     \* an exec reports progress k / ProgSteps, k in 0..ProgSteps

(* Program constants *)

FRAME_RATE == 25

----------------------------------------------------------------------------
(* Helpers *)

Range(s) == { s[k] : k \in 1..Len(s) }

SeqsUpTo(S, n) == UNION { [1..k -> S] : k \in 0..n }

Frac(n, d) == [n |-> n, d |-> d]
FracLeq(a, b) == a.n * b.d <= b.n * a.d
FracIs(a, k) == a.n = k * a.d

Max(a, b) == IF a >= b THEN a ELSE b

----------------------------------------------------------------------------
(* Timeline: segments and the active-segment computation *)

Times == { 40 * k : k \in 0..MaxTick }

Segments == [startTime : Times, endTime : Times]

Timelines == SeqsUpTo(Segments, MaxSegs)

\* the window closed at its end: time <= endTime
IsActiveEndInclusive(segment, time) ==
  time >= segment.startTime /\ time <= segment.endTime

\* the predicate of data.filter(...): time >= startTime && time < endTime
IsActive(segment, time) ==
  time >= segment.startTime /\ time < segment.endTime

\* Array.prototype.filter: walks the array in index order and appends each
\* element the predicate accepts.  The result is kept as the indices of the
\* accepted elements, so that two equal segments stay distinguishable.
RECURSIVE FilterFrom(_, _, _)
FilterFrom(segs, time, k) ==
  IF k > Len(segs) THEN << >>
  ELSE (IF IsActive(segs[k], time) THEN << k >> ELSE << >>)
       \o FilterFrom(segs, time, k + 1)

ActiveAt(segs, time) == FilterFrom(segs, time, 1)

\* data.reduce((max, s) => Math.max(max, s.endTime), 0)
RECURSIVE MaxEndFrom(_, _, _)
MaxEndFrom(segs, k, acc) ==
  IF k > Len(segs) THEN acc
  ELSE MaxEndFrom(segs, k + 1, Max(acc, segs[k].endTime))

\* useMemo totalDuration: the media's duration when it is truthy and finite
\* (0 stands for NaN / not yet known), else max(endTime), else 10 s.
TotalDurationOf(segs, mediaDuration) ==
  IF mediaDuration > 0 THEN mediaDuration
  ELSE IF Len(segs) > 0 THEN MaxEndFrom(segs, 1, 0)
  ELSE 10000

MediaDurations == { 0 } \cup { 50 * k : k \in 1..MaxDur }

\* the variables of the stand-alone computation while another part runs
ActiveParked ==
  /\ actSegs = << >>
  /\ actTime = 0
  /\ actResult = << >>
  /\ actDone = FALSE

EscapeParked ==
  /\ escRaw = << >>
  /\ escCount = 0
  /\ escText = << >>
  /\ escFont = << >>
  /\ escExpr = << >>
  /\ escPc = "parked"
  /\ escSegs = << >>

NoResponse == [status |-> 0, kind |-> "none", details |-> {}]

\* JSON values of a request body, by type
Undefined == [type |-> "undefined", str |-> "", num |-> 0]
Str(x) == [type |-> "string", str |-> x, num |-> 0]
Num(n) == [type |-> "number", str |-> "", num |-> n]

\* a body req.json() cannot parse
NotJson ==
  [json |-> FALSE, mediaUrl |-> Undefined, isArray |-> FALSE, segments |-> << >>]

NotClosed == [closed |-> FALSE, code |-> 0]

NoError == [kind |-> "none", code |-> 0, stderr |-> << >>]

ServerProcInit ==
  /\ srvFetchResult = "none"
  /\ srvStderr = << >>
  /\ srvClose = NotClosed
  /\ srvStreamError = NoError

ServerParked ==
  /\ ServerProcInit
  /\ srvBody = NotJson
  /\ srvFfmpegPath = FALSE
  /\ srvFontMap = {}
  /\ srvPc = "parked"
  /\ srvFetched = FALSE
  /\ srvSpawned = FALSE
  /\ srvFilters = << >>
  /\ srvStream = "none"
  /\ srvResponse = NoResponse

LegacyParked ==
  /\ legDir = [readable |-> FALSE, files |-> { }]
  /\ legInitPc = "parked"
  /\ legFontMap = { }
  /\ legFfmpegPath = FALSE
  /\ legReq = << >>

PageParked ==
  /\ unmounted = FALSE
  /\ elementDuration = 0
  /\ isPlaying = FALSE
  /\ playRequest = "none"
  /\ mediaOpacity = "1"

SessionParked ==
  /\ sesFile = "parked"
  /\ sesData = FALSE
  /\ sesInst = << >>
  /\ sesJobs = << >>

PipeParked ==
  /\ pipSource = 0
  /\ pipEnded = FALSE
  /\ pipStdin = 0
  /\ pipStdout = 0
  /\ pipPass = 0
  /\ pipProc = "parked"
  /\ pipConsumer = "parked"
  /\ pipStream = "parked"
  /\ pipSourceError = FALSE
  /\ pipStdinError = "none"

CleanupParked ==
  /\ clnFs = { }
  /\ clnNumFrames = 0
  /\ clnStep = 0
  /\ clnAttempted = { }
  /\ clnPc = "parked"

----------------------------------------------------------------------------
(* Client-side render job: handleDownload *)

\* a frame count that rounds up instead of down
NumFramesRoundedUp(d) == (d * FRAME_RATE + 999) \div 1000

\* Math.floor(duration * FRAME_RATE), duration in ms
NumFramesOf(d) == (d * FRAME_RATE) \div 1000

\* const time = i / FRAME_RATE, in ms
FrameTime(i) == (i * 1000) \div FRAME_RATE

SourceFile(video) == IF video THEN "input.mp4" ELSE "input.mp3"
AudioFile == "input_audio.aac"
VideoOnlyFile == "video_only.mp4"
OutputFile == "output.mp4"
\* `frame-${String(i).padStart(5, '0')}.png`
FrameFile(i) == "frame-0000" \o ToString(i) \o ".png"

MaxFrames == NumFramesOf(Max(50 * MaxDur, 40 * MaxTick))
FrameIdx == 0..(MaxFrames - 1)

NoImage == << -1 >>

ClientParked ==
  /\ data = << >>
  /\ isVideo = FALSE
  /\ totalDuration = 0
  /\ ffmpegLoaded = FALSE
  /\ isRendering = FALSE
  /\ renderProgress = Frac(0, 1)
  /\ renderMessage = ""
  /\ currentSegments = << >>
  /\ mediaTime = 0
  /\ pc = "parked"
  /\ frame = 0
  /\ duration = 0
  /\ numFrames = 0
  /\ cleanupFiles = << >>
  /\ fs = {}
  /\ audioExists = FALSE
  /\ capture = [k \in FrameIdx |-> "none"]
  /\ image = [k \in FrameIdx |-> NoImage]
  /\ execP = 0
  /\ cleanupIdx = 0
  /\ toast = "none"

ExecStates == { "execAudio", "execEncode", "execMux" }

Init ==
  /\ data \in Timelines
  /\ isVideo \in BOOLEAN
  /\ \E md \in MediaDurations :
       /\ md = 0 => Len(data) > 0
       /\ totalDuration = TotalDurationOf(data, md)
  /\ ffmpegLoaded = FALSE
  /\ isRendering = FALSE
  /\ renderProgress = Frac(0, 1)
  /\ renderMessage = ""
  /\ currentSegments = << >>
  /\ mediaTime = 0
  /\ pc = "idle"
  /\ frame = 0
  /\ duration = 0
  /\ numFrames = 0
  /\ cleanupFiles = << >>
  /\ fs = {}
  /\ audioExists = FALSE
  /\ capture = [k \in FrameIdx |-> "none"]
  /\ image = [k \in FrameIdx |-> NoImage]
  /\ execP = 0
  /\ cleanupIdx = 0
  /\ toast = "none"
  /\ ActiveParked
  /\ EscapeParked
  /\ ServerParked
  /\ LegacyParked
  /\ CleanupParked
  /\ PageParked
  /\ SessionParked
  /\ PipeParked

\* loadFFmpeg: the await of ffmpeg.load() is over; listeners are registered
LoadFFmpeg ==
  /\ ~ffmpegLoaded
  /\ ffmpegLoaded' = TRUE
  /\ renderMessage' = ""
  /\ UNCHANGED << activeVars, escapeVars, serverVars,
                  legacyVars, cleanupVars,
                  pageVars, sessionVars, pipeVars >>
  /\ UNCHANGED << data, isVideo, totalDuration, isRendering, renderProgress,
                  currentSegments, mediaTime, pc, frame, duration, numFrames,
                  cleanupFiles, fs, audioExists, capture, image, execP,
                  cleanupIdx, toast >>

\* ffmpeg.on('progress', ...): the listener registered by loadFFmpeg.  The
\* encoder module raises it while any exec is running; within one exec the
\* reported fraction does not go down.
ProgressValue(p) == Frac(75 * ProgSteps + 25 * p, ProgSteps)

ProgressEvent ==
  /\ pc \in ExecStates
  /\ \E p \in execP..ProgSteps :
       /\ execP' = p
       /\ renderProgress' = ProgressValue(p)
       /\ renderMessage' = "Encoding..."
  /\ UNCHANGED << activeVars, escapeVars, serverVars,
                  legacyVars, cleanupVars,
                  pageVars, sessionVars, pipeVars >>
  /\ UNCHANGED << data, isVideo, totalDuration, ffmpegLoaded, isRendering,
                  currentSegments, mediaTime, pc, frame, duration, numFrames,
                  cleanupFiles, fs, audioExists, capture, image, cleanupIdx,
                  toast >>

\* handleDownload while the engine is not loaded: toast and return
HandleDownloadNotReady ==
  /\ pc = "idle"
  /\ ~isRendering
  /\ ~ffmpegLoaded
  /\ toast' = "notReady"
  /\ UNCHANGED << activeVars, escapeVars, serverVars,
                  legacyVars, cleanupVars,
                  pageVars, sessionVars, pipeVars >>
  /\ UNCHANGED << data, isVideo, totalDuration, ffmpegLoaded, isRendering,
                  renderProgress, renderMessage, currentSegments, mediaTime,
                  pc, frame, duration, numFrames, cleanupFiles, fs,
                  audioExists, capture, image, execP, cleanupIdx >>

\* media.pause(): the play promises still in the element's list of pending
\* play promises are rejected; a promise the element has already taken out of
\* the list, to resolve it in a task it has queued, is not
PauseMedia(request) == IF request = "waiting" THEN "rejected" ELSE request

\* a handleDownload that does not look at ffmpegLoaded
HandleDownloadUnchecked ==
  /\ pc = "idle"
  /\ ~isRendering
  /\ isRendering' = TRUE
  /\ mediaTime' = 0
  /\ duration' = totalDuration
  /\ numFrames' = NumFramesOf(totalDuration)
  /\ renderProgress' = Frac(0, 1)
  /\ renderMessage' = "Preparing media..."
  /\ cleanupFiles' = << SourceFile(isVideo), AudioFile >>
  /\ pc' = "fetchFile"
  /\ isPlaying' = FALSE
  /\ playRequest' = PauseMedia(playRequest)
  /\ UNCHANGED << unmounted, elementDuration, mediaOpacity >>
  /\ UNCHANGED << activeVars, escapeVars, serverVars,
                  legacyVars, cleanupVars,
                  sessionVars, pipeVars >>
  /\ UNCHANGED << data, isVideo, totalDuration, ffmpegLoaded,
                  currentSegments, frame, fs, audioExists, capture, image,
                  execP, cleanupIdx, toast >>

\* handleDownload up to its first await, fetchFile(mediaUrl)
HandleDownload ==
  /\ pc = "idle"
  /\ ~isRendering
  /\ ffmpegLoaded
  /\ isRendering' = TRUE
  /\ mediaTime' = 0
  /\ duration' = totalDuration
  /\ numFrames' = NumFramesOf(totalDuration)
  /\ renderProgress' = Frac(0, 1)
  /\ renderMessage' = "Preparing media..."
  /\ cleanupFiles' = << SourceFile(isVideo), AudioFile >>
  /\ pc' = "fetchFile"
  /\ isPlaying' = FALSE
  /\ playRequest' = PauseMedia(playRequest)
  /\ UNCHANGED << unmounted, elementDuration, mediaOpacity >>
  /\ UNCHANGED << activeVars, escapeVars, serverVars,
                  legacyVars, cleanupVars,
                  sessionVars, pipeVars >>
  /\ UNCHANGED << data, isVideo, totalDuration, ffmpegLoaded,
                  currentSegments, frame, fs, audioExists, capture, image,
                  execP, cleanupIdx, toast >>

\* a finally block that leaves the status message as it is
FinallyKeepsMessage(t) ==
  /\ toast' = t
  /\ isRendering' = FALSE
  /\ renderProgress' = Frac(0, 1)
  /\ renderMessage' = renderMessage
  /\ cleanupIdx' = 1
  /\ pc' = "cleanup"

\* catch (if an error was thrown) and finally, up to the first deleteFile
Finally(t) ==
  /\ toast' = t
  /\ isRendering' = FALSE
  /\ renderProgress' = Frac(0, 1)
  /\ renderMessage' = ""
  /\ cleanupIdx' = 1
  /\ pc' = "cleanup"

\* fetchFile(mediaUrl) resolved: ffmpeg.writeFile(sourceFileName, ...) starts
FetchFileOk ==
  /\ pc = "fetchFile"
  /\ pc' = "writeSource"
  /\ UNCHANGED << activeVars, escapeVars, serverVars,
                  legacyVars, cleanupVars,
                  pageVars, sessionVars, pipeVars >>
  /\ UNCHANGED << data, isVideo, totalDuration, ffmpegLoaded, isRendering,
                  renderProgress, renderMessage, currentSegments, mediaTime,
                  frame, duration, numFrames, cleanupFiles, fs, audioExists,
                  capture, image, execP, cleanupIdx, toast >>

\* fetchFile(mediaUrl) rejected
FetchFileFail ==
  /\ pc = "fetchFile"
  /\ Finally("failed")
  /\ UNCHANGED << activeVars, escapeVars, serverVars,
                  legacyVars, cleanupVars,
                  pageVars, sessionVars, pipeVars >>
  /\ UNCHANGED << data, isVideo, totalDuration, ffmpegLoaded,
                  currentSegments, mediaTime, frame, duration, numFrames,
                  cleanupFiles, fs, audioExists, capture, image, execP >>

\* writeFile resolved: the audio-extraction exec starts
WriteSource ==
  /\ pc = "writeSource"
  /\ fs' = fs \cup { SourceFile(isVideo) }
  /\ audioExists' = FALSE
  /\ execP' = 0
  /\ pc' = "execAudio"
  /\ UNCHANGED << activeVars, escapeVars, serverVars,
                  legacyVars, cleanupVars,
                  pageVars, sessionVars, pipeVars >>
  /\ UNCHANGED << data, isVideo, totalDuration, ffmpegLoaded, isRendering,
                  renderProgress, renderMessage, currentSegments, mediaTime,
                  frame, duration, numFrames, cleanupFiles, capture, image,
                  cleanupIdx, toast >>

\* head of the capture loop for index i: seek the media and sleep(40), or
\* leave the loop and await Promise.all(framePromises)
LoopHead(i) ==
  /\ frame' = i
  /\ renderMessage' = "Capturing animation frames..."
  /\ IF i < numFrames
       THEN mediaTime' = FrameTime(i) /\ pc' = "sleep40"
       ELSE mediaTime' = mediaTime /\ pc' = "awaitAll"

\* the audio-extraction exec resolved (it may or may not have made the file)
ExecAudioDone ==
  /\ pc = "execAudio"
  /\ \E created \in BOOLEAN :
       fs' = IF created THEN fs \cup { AudioFile } ELSE fs
  /\ pc' = "readAudio"
  /\ UNCHANGED << activeVars, escapeVars, serverVars,
                  legacyVars, cleanupVars,
                  pageVars, sessionVars, pipeVars >>
  /\ UNCHANGED << data, isVideo, totalDuration, ffmpegLoaded, isRendering,
                  renderProgress, renderMessage, currentSegments, mediaTime,
                  frame, duration, numFrames, cleanupFiles, audioExists,
                  capture, image, execP, cleanupIdx, toast >>

\* the audio-extraction exec rejected: the inner catch, then the capture loop
ExecAudioThrow ==
  /\ pc = "execAudio"
  /\ audioExists' = FALSE
  /\ LoopHead(0)
  /\ UNCHANGED << activeVars, escapeVars, serverVars,
                  legacyVars, cleanupVars,
                  pageVars, sessionVars, pipeVars >>
  /\ UNCHANGED << data, isVideo, totalDuration, ffmpegLoaded, isRendering,
                  renderProgress, currentSegments, duration, numFrames,
                  cleanupFiles, fs, capture, image, execP, cleanupIdx,
                  toast >>

\* readFile(inputAudioFilename): rejects when the file is missing, else
\* audioExists = (audioData.length > 0); then the capture loop starts
ReadAudio ==
  /\ pc = "readAudio"
  /\ IF AudioFile \in fs
       THEN \E nonEmpty \in BOOLEAN : audioExists' = nonEmpty
       ELSE audioExists' = FALSE
  /\ LoopHead(0)
  /\ UNCHANGED << activeVars, escapeVars, serverVars,
                  legacyVars, cleanupVars,
                  pageVars, sessionVars, pipeVars >>
  /\ UNCHANGED << data, isVideo, totalDuration, ffmpegLoaded, isRendering,
                  renderProgress, currentSegments, duration, numFrames,
                  cleanupFiles, fs, capture, image, execP, cleanupIdx,
                  toast >>

\* after sleep(40): filter the active segments and setCurrentSegments
AfterSleep40 ==
  /\ pc = "sleep40"
  /\ currentSegments' = ActiveAt(data, FrameTime(frame))
  /\ pc' = "sleep10"
  /\ UNCHANGED << activeVars, escapeVars, serverVars,
                  legacyVars, cleanupVars,
                  pageVars, sessionVars, pipeVars >>
  /\ UNCHANGED << data, isVideo, totalDuration, ffmpegLoaded, isRendering,
                  renderProgress, renderMessage, mediaTime, frame, duration,
                  numFrames, cleanupFiles, fs, audioExists, capture, image,
                  execP, cleanupIdx, toast >>

\* after sleep(10): htmlToImage.toPng is called and its promise is pushed
\* without being awaited; setRenderProgress; then the next loop iteration
\* runs in the same turn up to its sleep(40)
AfterSleep10 ==
  /\ pc = "sleep10"
  /\ capture' = [capture EXCEPT ![frame] = "pending"]
  /\ renderProgress' = Frac(25 * numFrames + 50 * (frame + 1), numFrames)
  /\ LoopHead(frame + 1)
  /\ UNCHANGED << activeVars, escapeVars, serverVars,
                  legacyVars, cleanupVars,
                  pageVars, sessionVars, pipeVars >>
  /\ UNCHANGED << data, isVideo, totalDuration, ffmpegLoaded, isRendering,
                  currentSegments, duration, numFrames, cleanupFiles, fs,
                  audioExists, image, execP, cleanupIdx, toast >>

\* a pending toPng promise resolves: the image shows the overlay as it is on
\* screen when the library reads it
CaptureResolve ==
  /\ pc \in { "sleep40", "sleep10", "awaitAll" }
  /\ \E k \in FrameIdx :
       /\ capture[k] = "pending"
       /\ capture' = [capture EXCEPT ![k] = "done"]
       /\ image' = [image EXCEPT ![k] = currentSegments]
  /\ UNCHANGED << activeVars, escapeVars, serverVars,
                  legacyVars, cleanupVars,
                  pageVars, sessionVars, pipeVars >>
  /\ UNCHANGED << data, isVideo, totalDuration, ffmpegLoaded, isRendering,
                  renderProgress, renderMessage, currentSegments, mediaTime,
                  pc, frame, duration, numFrames, cleanupFiles, fs,
                  audioExists, execP, cleanupIdx, toast >>

\* a pending toPng promise rejects
CaptureReject ==
  /\ pc \in { "sleep40", "sleep10", "awaitAll" }
  /\ \E k \in FrameIdx :
       /\ capture[k] = "pending"
       /\ capture' = [capture EXCEPT ![k] = "failed"]
  /\ UNCHANGED << activeVars, escapeVars, serverVars,
                  legacyVars, cleanupVars,
                  pageVars, sessionVars, pipeVars >>
  /\ UNCHANGED << data, isVideo, totalDuration, ffmpegLoaded, isRendering,
                  renderProgress, renderMessage, currentSegments, mediaTime,
                  pc, frame, duration, numFrames, cleanupFiles, fs,
                  audioExists, image, execP, cleanupIdx, toast >>

\* the frame write loop without cleanupFiles.push(frameFilename)
WriteLoopHeadUnregistered(j) ==
  /\ frame' = j
  /\ IF j < numFrames
       THEN /\ cleanupFiles' = cleanupFiles
            /\ pc' = "writeFrame"
            /\ UNCHANGED << renderProgress, renderMessage, execP >>
       ELSE /\ renderProgress' = Frac(75, 1)
            /\ renderMessage' = "Encoding video..."
            /\ cleanupFiles' = cleanupFiles \o << VideoOnlyFile, OutputFile >>
            /\ execP' = 0
            /\ pc' = "execEncode"

\* head of the frame-writing loop for index j: register and write frame j, or
\* stage 3: setRenderProgress(75), register the two outputs, start the encode
WriteLoopHead(j) ==
  /\ frame' = j
  /\ IF j < numFrames
       THEN /\ cleanupFiles' = Append(cleanupFiles, FrameFile(j))
            /\ pc' = "writeFrame"
            /\ UNCHANGED << renderProgress, renderMessage, execP >>
       ELSE /\ renderProgress' = Frac(75, 1)
            /\ renderMessage' = "Encoding video..."
            /\ cleanupFiles' = cleanupFiles \o << VideoOnlyFile, OutputFile >>
            /\ execP' = 0
            /\ pc' = "execEncode"

\* a wait that goes on once every capture has settled, failed or not
AwaitAllSettled ==
  /\ pc = "awaitAll"
  /\ \A k \in 0..(numFrames - 1) : capture[k] \in { "done", "failed" }
  /\ WriteLoopHead(0)
  /\ UNCHANGED << data, isVideo, totalDuration, ffmpegLoaded, isRendering,
                  currentSegments, mediaTime, duration, numFrames, fs,
                  audioExists, capture, image, cleanupIdx, toast >>
  /\ UNCHANGED << activeVars, escapeVars, serverVars,
                  legacyVars, cleanupVars,
                  pageVars, sessionVars, pipeVars >>

\* Promise.all(framePromises) resolved: every capture is done
AwaitAllOk ==
  /\ pc = "awaitAll"
  /\ \A k \in 0..(numFrames - 1) : capture[k] = "done"
  /\ WriteLoopHead(0)
  /\ UNCHANGED << activeVars, escapeVars, serverVars,
                  legacyVars, cleanupVars,
                  pageVars, sessionVars, pipeVars >>
  /\ UNCHANGED << data, isVideo, totalDuration, ffmpegLoaded, isRendering,
                  currentSegments, mediaTime, duration, numFrames, fs,
                  audioExists, capture, image, cleanupIdx, toast >>

\* Promise.all(framePromises) rejected: some capture failed
AwaitAllFail ==
  /\ pc = "awaitAll"
  /\ \E k \in 0..(numFrames - 1) : capture[k] = "failed"
  /\ Finally("failed")
  /\ UNCHANGED << activeVars, escapeVars, serverVars,
                  legacyVars, cleanupVars,
                  pageVars, sessionVars, pipeVars >>
  /\ UNCHANGED << data, isVideo, totalDuration, ffmpegLoaded,
                  currentSegments, mediaTime, frame, duration, numFrames,
                  cleanupFiles, fs, audioExists, capture, image, execP >>

\* ffmpeg.writeFile(frameFilename, ...) resolved
WriteFrame ==
  /\ pc = "writeFrame"
  /\ fs' = fs \cup { FrameFile(frame) }
  /\ WriteLoopHead(frame + 1)
  /\ UNCHANGED << activeVars, escapeVars, serverVars,
                  legacyVars, cleanupVars,
                  pageVars, sessionVars, pipeVars >>
  /\ UNCHANGED << data, isVideo, totalDuration, ffmpegLoaded, isRendering,
                  currentSegments, mediaTime, duration, numFrames,
                  audioExists, capture, image, cleanupIdx, toast >>

\* a frame-sequence exec after which the mux command is always issued
ExecEncodeDoneAlwaysMux ==
  /\ pc = "execEncode"
  /\ \E created \in BOOLEAN :
       fs' = IF created THEN fs \cup { VideoOnlyFile } ELSE fs
  /\ renderMessage' = "Adding audio..."
  /\ execP' = 0
  /\ pc' = "execMux"
  /\ UNCHANGED << activeVars, escapeVars, serverVars,
                  legacyVars, cleanupVars,
                  pageVars, sessionVars, pipeVars >>
  /\ UNCHANGED << data, isVideo, totalDuration, ffmpegLoaded, isRendering,
                  renderProgress, currentSegments, mediaTime, frame,
                  duration, numFrames, cleanupFiles, audioExists, capture,
                  image, cleanupIdx, toast >>

\* the frame-sequence exec resolved: mux when audio exists, else rename
ExecEncodeDone ==
  /\ pc = "execEncode"
  /\ \E created \in BOOLEAN :
       fs' = IF created THEN fs \cup { VideoOnlyFile } ELSE fs
  /\ IF audioExists
       THEN /\ renderMessage' = "Adding audio..."
            /\ execP' = 0
            /\ pc' = "execMux"
       ELSE /\ pc' = "rename"
            /\ UNCHANGED << renderMessage, execP >>
  /\ UNCHANGED << activeVars, escapeVars, serverVars,
                  legacyVars, cleanupVars,
                  pageVars, sessionVars, pipeVars >>
  /\ UNCHANGED << data, isVideo, totalDuration, ffmpegLoaded, isRendering,
                  renderProgress, currentSegments, mediaTime, frame,
                  duration, numFrames, cleanupFiles, audioExists, capture,
                  image, cleanupIdx, toast >>

\* the frame-sequence exec or the mux exec rejected
ExecThrow ==
  /\ pc \in { "execEncode", "execMux" }
  /\ Finally("failed")
  /\ UNCHANGED << activeVars, escapeVars, serverVars,
                  legacyVars, cleanupVars,
                  pageVars, sessionVars, pipeVars >>
  /\ UNCHANGED << data, isVideo, totalDuration, ffmpegLoaded,
                  currentSegments, mediaTime, frame, duration, numFrames,
                  cleanupFiles, fs, audioExists, capture, image, execP >>

\* the mux exec resolved; it can only make output.mp4 from both inputs
ExecMuxDone ==
  /\ pc = "execMux"
  /\ \E created \in BOOLEAN :
       /\ created => { VideoOnlyFile, AudioFile } \subseteq fs
       /\ fs' = IF created THEN fs \cup { OutputFile } ELSE fs
  /\ renderMessage' = "Finalizing video..."
  /\ pc' = "readOutput"
  /\ UNCHANGED << activeVars, escapeVars, serverVars,
                  legacyVars, cleanupVars,
                  pageVars, sessionVars, pipeVars >>
  /\ UNCHANGED << data, isVideo, totalDuration, ffmpegLoaded, isRendering,
                  renderProgress, currentSegments, mediaTime, frame,
                  duration, numFrames, cleanupFiles, audioExists, capture,
                  image, execP, cleanupIdx, toast >>

\* ffmpeg.rename(videoOnlyFilename, finalOutputFilename)
Rename ==
  /\ pc = "rename"
  /\ IF VideoOnlyFile \in fs
       THEN /\ fs' = (fs \ { VideoOnlyFile }) \cup { OutputFile }
            /\ renderMessage' = "Finalizing video..."
            /\ pc' = "readOutput"
            /\ UNCHANGED << isRendering, renderProgress, cleanupIdx, toast >>
       ELSE /\ Finally("failed")
            /\ UNCHANGED fs
  /\ UNCHANGED << activeVars, escapeVars, serverVars,
                  legacyVars, cleanupVars,
                  pageVars, sessionVars, pipeVars >>
  /\ UNCHANGED << data, isVideo, totalDuration, ffmpegLoaded,
                  currentSegments, mediaTime, frame, duration, numFrames,
                  cleanupFiles, audioExists, capture, image, execP >>

\* ffmpeg.readFile(finalOutputFilename), the download and the success toast
ReadOutput ==
  /\ pc = "readOutput"
  /\ IF OutputFile \in fs THEN Finally("complete") ELSE Finally("failed")
  /\ UNCHANGED << activeVars, escapeVars, serverVars,
                  legacyVars, cleanupVars,
                  pageVars, sessionVars, pipeVars >>
  /\ UNCHANGED << data, isVideo, totalDuration, ffmpegLoaded,
                  currentSegments, mediaTime, frame, duration, numFrames,
                  cleanupFiles, fs, audioExists, capture, image, execP >>

\* one turn of the finally block's loop: deleteFile(file) resolved, or
\* rejected (the file is missing) and the error was ignored
DeleteFile ==
  /\ pc = "cleanup"
  /\ fs' = fs \ { cleanupFiles[cleanupIdx] }
  /\ IF cleanupIdx < Len(cleanupFiles)
       THEN cleanupIdx' = cleanupIdx + 1 /\ pc' = pc
       ELSE cleanupIdx' = cleanupIdx /\ pc' = "done"
  /\ UNCHANGED << activeVars, escapeVars, serverVars,
                  legacyVars, cleanupVars,
                  pageVars, sessionVars, pipeVars >>
  /\ UNCHANGED << data, isVideo, totalDuration, ffmpegLoaded, isRendering,
                  renderProgress, renderMessage, currentSegments, mediaTime,
                  frame, duration, numFrames, cleanupFiles, audioExists,
                  capture, image, execP, toast >>

\* the user picks another file while the sampler of a job is running: the
\* page gives AnimationPreview a new key and the job's component is
\* unmounted; handleDownload reads no flag, so the job goes on as it was
Remount ==
  /\ pc \in { "sleep40", "sleep10" }
  /\ ~unmounted
  /\ unmounted' = TRUE
  /\ UNCHANGED << elementDuration, isPlaying, playRequest, mediaOpacity >>
  /\ UNCHANGED << clientVars, activeVars, escapeVars, serverVars,
                  legacyVars, cleanupVars, sessionVars, pipeVars >>

Next ==
  \/ LoadFFmpeg
  \/ ProgressEvent
  \/ HandleDownloadNotReady
  \/ HandleDownload
  \/ FetchFileOk
  \/ FetchFileFail
  \/ WriteSource
  \/ ExecAudioDone
  \/ ExecAudioThrow
  \/ ReadAudio
  \/ AfterSleep40
  \/ AfterSleep10
  \/ CaptureResolve
  \/ CaptureReject
  \/ AwaitAllOk
  \/ AwaitAllFail
  \/ WriteFrame
  \/ ExecEncodeDone
  \/ ExecThrow
  \/ ExecMuxDone
  \/ Rename
  \/ ReadOutput
  \/ DeleteFile
  \/ Remount

Spec == Init /\ [][Next]_vars

FairMaxSegs == 0   \* segments in the timeline of a job checked for its end

\* the job's control flow reads the timeline only to fill currentSegments,
\* so its end is checked on the short timelines
FairInit == Init /\ Len(data) <= FairMaxSegs

\* the same job when every await settles and the event loop runs the
\* continuation of every settled await
SpecFair == FairInit /\ [][Next]_vars /\ WF_vars(Next)

----------------------------------------------------------------------------
(* Client-side render job, raw-frame version of handleDownload: the audio   *)
(* is extracted first, every capture is awaited and written as an .rgba     *)
(* frame, and one encoder command makes the final file                      *)

\* `frame-${String(i).padStart(5, '0')}.rgba`
RawFrameFile(i) == "frame-0000" \o ToString(i) \o ".rgba"

\* the files the finally block deletes, in its order
RawCleanupFiles(n, video) ==
  [k \in 1..n |-> RawFrameFile(k - 1)] \o
  << SourceFile(video), AudioFile, OutputFile >>

\* ffmpeg.on('progress', ...): setRenderProgress(50 + (progress * 50))
RawProgressValue(p) == Frac(50 * ProgSteps + 50 * p, ProgSteps)

\* head of the capture loop for index i: seek the media and wait, or leave
\* the loop: reset the preview, setRenderProgress(50), start the encoder
RawLoopHead(i, progress) ==
  /\ frame' = i
  /\ IF i < numFrames
       THEN /\ mediaTime' = FrameTime(i)
            /\ renderProgress' = progress
            /\ renderMessage' = "Capturing animation frames..."
            /\ pc' = "seek"
            /\ UNCHANGED << currentSegments, execP >>
       ELSE /\ mediaTime' = 0
            /\ currentSegments' = << >>
            /\ renderProgress' = Frac(50, 1)
            /\ renderMessage' = "Combining frames and audio..."
            /\ execP' = 0
            /\ pc' = "execFinal"

\* handleDownload up to its first await, fetchFile(mediaUrl)
RawHandleDownload ==
  /\ pc = "idle"
  /\ ~isRendering
  /\ ffmpegLoaded
  /\ isRendering' = TRUE
  /\ duration' = totalDuration
  /\ numFrames' = NumFramesOf(totalDuration)
  /\ renderMessage' = "Preparing media..."
  /\ cleanupFiles' = RawCleanupFiles(NumFramesOf(totalDuration), isVideo)
  /\ pc' = "fetchFile"
  /\ UNCHANGED << data, isVideo, totalDuration, ffmpegLoaded,
                  renderProgress, currentSegments, mediaTime, frame, fs,
                  audioExists, capture, image, execP, cleanupIdx, toast >>
  /\ UNCHANGED << activeVars, escapeVars, serverVars,
                  legacyVars, cleanupVars,
                  pageVars, sessionVars, pipeVars >>

\* writeFile resolved: the audio exec (extract or convert) starts
RawWriteSource ==
  /\ pc = "writeSource"
  /\ fs' = fs \cup { SourceFile(isVideo) }
  /\ audioExists' = FALSE
  /\ renderMessage' = IF isVideo THEN "Extracting audio from video..."
                                 ELSE "Converting audio..."
  /\ execP' = 0
  /\ pc' = "execAudio"
  /\ UNCHANGED << data, isVideo, totalDuration, ffmpegLoaded, isRendering,
                  renderProgress, currentSegments, mediaTime, frame,
                  duration, numFrames, cleanupFiles, capture, image,
                  cleanupIdx, toast >>
  /\ UNCHANGED << activeVars, escapeVars, serverVars,
                  legacyVars, cleanupVars,
                  pageVars, sessionVars, pipeVars >>

\* the audio exec resolved (it may or may not have made the file):
\* audioExists = true, then the capture loop starts
RawExecAudioDone ==
  /\ pc = "execAudio"
  /\ \E created \in BOOLEAN :
       fs' = IF created THEN fs \cup { AudioFile } ELSE fs
  /\ audioExists' = TRUE
  /\ RawLoopHead(0, renderProgress)
  /\ UNCHANGED << data, isVideo, totalDuration, ffmpegLoaded, isRendering,
                  duration, numFrames, cleanupFiles, capture, image,
                  cleanupIdx, toast >>
  /\ UNCHANGED << activeVars, escapeVars, serverVars,
                  legacyVars, cleanupVars,
                  pageVars, sessionVars, pipeVars >>

\* the audio exec rejected: the inner catch, then the capture loop
RawExecAudioThrow ==
  /\ pc = "execAudio"
  /\ RawLoopHead(0, renderProgress)
  /\ UNCHANGED << data, isVideo, totalDuration, ffmpegLoaded, isRendering,
                  duration, numFrames, cleanupFiles, fs, audioExists,
                  capture, image, cleanupIdx, toast >>
  /\ UNCHANGED << activeVars, escapeVars, serverVars,
                  legacyVars, cleanupVars,
                  pageVars, sessionVars, pipeVars >>

\* a progress event of the running exec
RawProgressEvent ==
  /\ pc \in { "execAudio", "execFinal" }
  /\ \E p \in execP..ProgSteps :
       /\ execP' = p
       /\ renderProgress' = RawProgressValue(p)
       /\ renderMessage' = "Encoding video..."
  /\ UNCHANGED << data, isVideo, totalDuration, ffmpegLoaded, isRendering,
                  currentSegments, mediaTime, pc, frame, duration,
                  numFrames, cleanupFiles, fs, audioExists, capture, image,
                  cleanupIdx, toast >>
  /\ UNCHANGED << activeVars, escapeVars, serverVars,
                  legacyVars, cleanupVars,
                  pageVars, sessionVars, pipeVars >>

\* after the wait that follows the seek: filter the active segments and
\* setCurrentSegments
RawAfterSeek ==
  /\ pc = "seek"
  /\ currentSegments' = ActiveAt(data, FrameTime(frame))
  /\ pc' = "sleep10"
  /\ UNCHANGED << data, isVideo, totalDuration, ffmpegLoaded, isRendering,
                  renderProgress, renderMessage, mediaTime, frame,
                  duration, numFrames, cleanupFiles, fs, audioExists,
                  capture, image, execP, cleanupIdx, toast >>
  /\ UNCHANGED << activeVars, escapeVars, serverVars,
                  legacyVars, cleanupVars,
                  pageVars, sessionVars, pipeVars >>

\* after sleep(10): htmlToImage.toCanvas is called and awaited
RawAfterSleep10 ==
  /\ pc = "sleep10"
  /\ capture' = [capture EXCEPT ![frame] = "pending"]
  /\ pc' = "toCanvas"
  /\ UNCHANGED << data, isVideo, totalDuration, ffmpegLoaded, isRendering,
                  renderProgress, renderMessage, currentSegments,
                  mediaTime, frame, duration, numFrames, cleanupFiles, fs,
                  audioExists, image, execP, cleanupIdx, toast >>
  /\ UNCHANGED << activeVars, escapeVars, serverVars,
                  legacyVars, cleanupVars,
                  pageVars, sessionVars, pipeVars >>

\* toCanvas resolved: the pixels are read and writeFile starts
RawCaptureResolve ==
  /\ pc = "toCanvas"
  /\ capture' = [capture EXCEPT ![frame] = "done"]
  /\ image' = [image EXCEPT ![frame] = currentSegments]
  /\ pc' = "writeFrame"
  /\ UNCHANGED << data, isVideo, totalDuration, ffmpegLoaded, isRendering,
                  renderProgress, renderMessage, currentSegments,
                  mediaTime, frame, duration, numFrames, cleanupFiles, fs,
                  audioExists, execP, cleanupIdx, toast >>
  /\ UNCHANGED << activeVars, escapeVars, serverVars,
                  legacyVars, cleanupVars,
                  pageVars, sessionVars, pipeVars >>

\* toCanvas rejected
RawCaptureReject ==
  /\ pc = "toCanvas"
  /\ capture' = [capture EXCEPT ![frame] = "failed"]
  /\ Finally("failed")
  /\ UNCHANGED << data, isVideo, totalDuration, ffmpegLoaded,
                  currentSegments, mediaTime, frame, duration, numFrames,
                  cleanupFiles, fs, audioExists, image, execP >>
  /\ UNCHANGED << activeVars, escapeVars, serverVars,
                  legacyVars, cleanupVars,
                  pageVars, sessionVars, pipeVars >>

\* ffmpeg.writeFile(frame file) resolved: setRenderProgress, next iteration
RawWriteFrame ==
  /\ pc = "writeFrame"
  /\ fs' = fs \cup { RawFrameFile(frame) }
  /\ RawLoopHead(frame + 1, Frac(50 * (frame + 1), numFrames))
  /\ UNCHANGED << data, isVideo, totalDuration, ffmpegLoaded, isRendering,
                  duration, numFrames, cleanupFiles, audioExists, capture,
                  image, cleanupIdx, toast >>
  /\ UNCHANGED << activeVars, escapeVars, serverVars,
                  legacyVars, cleanupVars,
                  pageVars, sessionVars, pipeVars >>

\* the final exec resolved; it can only make output.mp4 when the audio
\* input it was given exists
RawExecFinalDone ==
  /\ pc = "execFinal"
  /\ \E created \in BOOLEAN :
       /\ created => (audioExists => AudioFile \in fs)
       /\ fs' = IF created THEN fs \cup { OutputFile } ELSE fs
  /\ renderMessage' = "Finalizing video..."
  /\ pc' = "readOutput"
  /\ UNCHANGED << data, isVideo, totalDuration, ffmpegLoaded, isRendering,
                  renderProgress, currentSegments, mediaTime, frame,
                  duration, numFrames, cleanupFiles, audioExists, capture,
                  image, execP, cleanupIdx, toast >>
  /\ UNCHANGED << activeVars, escapeVars, serverVars,
                  legacyVars, cleanupVars,
                  pageVars, sessionVars, pipeVars >>

\* the final exec rejected
RawExecThrow ==
  /\ pc = "execFinal"
  /\ Finally("failed")
  /\ UNCHANGED << data, isVideo, totalDuration, ffmpegLoaded,
                  currentSegments, mediaTime, frame, duration, numFrames,
                  cleanupFiles, fs, audioExists, capture, image, execP >>
  /\ UNCHANGED << activeVars, escapeVars, serverVars,
                  legacyVars, cleanupVars,
                  pageVars, sessionVars, pipeVars >>

RawNext ==
  \/ LoadFFmpeg
  \/ HandleDownloadNotReady
  \/ RawHandleDownload
  \/ FetchFileOk
  \/ FetchFileFail
  \/ RawWriteSource
  \/ RawExecAudioDone
  \/ RawExecAudioThrow
  \/ RawProgressEvent
  \/ RawAfterSeek
  \/ RawAfterSleep10
  \/ RawCaptureResolve
  \/ RawCaptureReject
  \/ RawWriteFrame
  \/ RawExecFinalDone
  \/ RawExecThrow
  \/ ReadOutput
  \/ DeleteFile

SpecRaw == Init /\ [][RawNext]_vars

----------------------------------------------------------------------------
(* The active-segment computation on its own *)

ActMaxSegs == 2    \* segments in a list given to the filter
ActMaxTime == 3    \* segment and query times are 0..ActMaxTime

ActTimes == 0..ActMaxTime

ActSegments == [startTime : ActTimes, endTime : ActTimes]

ActiveInit ==
  /\ actSegs \in SeqsUpTo(ActSegments, ActMaxSegs)
  /\ actTime \in ActTimes
  /\ actResult = << >>
  /\ actDone = FALSE
  /\ ClientParked
  /\ EscapeParked
  /\ ServerParked
  /\ LegacyParked
  /\ CleanupParked
  /\ PageParked
  /\ SessionParked
  /\ PipeParked

\* const activeSegments = data.filter(...)
ComputeActive ==
  /\ ~actDone
  /\ actResult' = ActiveAt(actSegs, actTime)
  /\ actDone' = TRUE
  /\ UNCHANGED << actSegs, actTime >>
  /\ UNCHANGED << clientVars, escapeVars, serverVars,
                  legacyVars, cleanupVars,
                  pageVars, sessionVars, pipeVars >>

ActiveNext == ComputeActive

SpecActive == ActiveInit /\ [][ActiveNext]_vars

\* C4: for every segment list (sorted or not, overlapping or not) and every
\* time t, boundaries included, the computation returns exactly the segments
\* with startTime <= t < endTime, each once, in their input order.
C4_ActiveExactlyWindow ==
  actDone =>
    /\ \A k \in 1..Len(actSegs) :
         (actSegs[k].startTime <= actTime /\ actTime < actSegs[k].endTime)
           <=> (\E j \in 1..Len(actResult) : actResult[j] = k)
    /\ \A j \in 1..Len(actResult) : actResult[j] \in 1..Len(actSegs)
    /\ \A i, j \in 1..Len(actResult) : i < j => actResult[i] < actResult[j]

\* C4 witness: two different overlapping segments, given out of start order,
\* queried at the start time of one of them; both are returned in input order.
C4_Witness ==
  /\ actDone
  /\ Len(actSegs) = 2
  /\ actSegs[1].startTime > actSegs[2].startTime
  /\ actTime = actSegs[1].startTime
  /\ actResult = << 1, 2 >>

----------------------------------------------------------------------------
(* Text / path escaping and the filter-graph builder (server side) *)
(* A string is a sequence of characters; a fixed word of the expression    *)
(* that holds no special character is kept as one character.               *)

MaxLen == 3        \* characters in a raw caption or path
MaxCaptions == 2   \* segments carrying the caption in one expression

BS == "\\"
QT == "'"

Alphabet == { BS, QT, ":", "%", ",", "a" }

Strings == SeqsUpTo(Alphabet, MaxLen)

\* String.prototype.replace(/c/g, r) for a one-character pattern
RECURSIVE ReplaceAllFrom(_, _, _, _)
ReplaceAllFrom(s, c, r, k) ==
  IF k > Len(s) THEN << >>
  ELSE (IF s[k] = c THEN r ELSE << s[k] >>) \o ReplaceAllFrom(s, c, r, k + 1)

ReplaceAll(s, c, r) == ReplaceAllFrom(s, c, r, 1)

\* escapeFFmpegDrawtext of route.ts: \ -> \\, ' -> '\'', : -> \:, % -> \%
escapeFFmpegDrawtext(text) ==
  ReplaceAll(
    ReplaceAll(
      ReplaceAll(
        ReplaceAll(text, BS, << BS, BS >>),
        QT, << QT, BS, QT, QT >>),
      ":", << BS, ":" >>),
    "%", << BS, "%" >>)

\* escapeWindowsPathForFFmpeg: \ -> /, : -> \:
escapeWindowsPathForFFmpeg(p) ==
  ReplaceAll(ReplaceAll(p, BS, << "/" >>), ":", << BS, ":" >>)

\* the earlier escapeFFmpegDrawtext (no percent step)
escapeFFmpegDrawtextNoPercent(text) ==
  ReplaceAll(
    ReplaceAll(
      ReplaceAll(text, BS, << BS, BS >>),
      QT, << QT, BS, QT, QT >>),
    ":", << BS, ":" >>)

\* escapeFFmpegText: \ -> \\\\, : -> \\:, % -> \\%, ' -> \\\\\'
escapeFFmpegText(text) ==
  ReplaceAll(
    ReplaceAll(
      ReplaceAll(
        ReplaceAll(text, BS, << BS, BS, BS, BS >>),
        ":", << BS, BS, ":" >>),
      "%", << BS, BS, "%" >>),
    QT, << BS, BS, BS, BS, BS, QT >>)

\* the font path of the default font, as path.join gives it on the host the
\* path escaper is written for
FontPath == << "C", ":", BS, "fonts", BS, "Roboto-Bold.ttf" >>

\* one draw operation: the template literal of the segments.map callback
DrawtextFilter(escapedFontPath, escapedText, startTime, endTime) ==
  << "drawtext", "=", "fontfile", "=", QT >> \o escapedFontPath \o << QT >>
  \o << ":", "text", "=", QT >> \o escapedText \o << QT >>
  \o << ":", "fontcolor", "=", "white",
        ":", "fontsize", "=", "48",
        ":", "box", "=", "1",
        ":", "boxcolor", "=", "black@0.5",
        ":", "boxborderw", "=", "10",
        ":", "x", "=", "(w-text_w)/2",
        ":", "y", "=", "(h-text_h)/2",
        ":", "enable", "=", QT,
        "between(t", ",", ToString(startTime), ",", ToString(endTime), ")",
        QT >>

\* segments.map(...).join(','), for n segments carrying the same caption
RECURSIVE JoinFilters(_, _)
JoinFilters(text, n) ==
  IF n = 0 THEN << >>
  ELSE LET one == DrawtextFilter(escapeWindowsPathForFFmpeg(FontPath),
                                 escapeFFmpegDrawtext(text), 0, 2)
       IN IF n = 1 THEN one ELSE one \o << "," >> \o JoinFilters(text, n - 1)

(* The renderer's reading of the expression.  One token is read the way    *)
(* the expression syntax quotes and escapes: outside quotes a backslash    *)
(* takes the next character literally and a quote opens a string; inside a *)
(* string every character up to the closing quote is literal.  A filter    *)
(* chain is split at commas and each filter's argument string is read as   *)
(* one token; the argument string is then split at colons into key=value   *)
(* fields and each value is read as one token again.                       *)

\* the reader's state: where it is (plain text, inside quotes, after a
\* backslash, or stopped at a terminator), the token so far, the stop index
ScanInit == [mode |-> "plain", tok |-> << >>, next |-> 0]

\* one character c at index i
ScanStep(st, c, i, term) ==
  CASE st.mode = "stop" -> st
    [] st.mode = "escape" -> [st EXCEPT !.mode = "plain", !.tok = Append(@, c)]
    [] st.mode = "quoted" ->
         IF c = QT THEN [st EXCEPT !.mode = "plain"]
                   ELSE [st EXCEPT !.tok = Append(@, c)]
    [] OTHER ->
         IF c \in term THEN [st EXCEPT !.mode = "stop", !.next = i]
         ELSE IF c = BS THEN [st EXCEPT !.mode = "escape"]
         ELSE IF c = QT THEN [st EXCEPT !.mode = "quoted"]
         ELSE [st EXCEPT !.tok = Append(@, c)]

\* the characters lo..hi of s read in order, from state st: the state after
\* the first half is the state the second half starts from
RECURSIVE ScanRange(_, _, _, _, _)
ScanRange(st, s, lo, hi, term) ==
  IF lo > hi THEN st
  ELSE IF lo = hi THEN ScanStep(st, s[lo], lo, term)
  ELSE LET mid == (lo + hi) \div 2
       IN CHOOSE r \in { ScanRange(half, s, mid + 1, hi, term) :
                           half \in { ScanRange(st, s, lo, mid, term) } } : TRUE

\* the token that starts at index i and the index it stopped at; a
\* backslash that ends the string stands for itself
GetToken(s, i, term) ==
  LET st == ScanRange(ScanInit, s, i, Len(s), term)
  IN [tok |-> IF st.mode = "escape" THEN Append(st.tok, BS) ELSE st.tok,
      next |-> IF st.mode = "stop" THEN st.next ELSE Len(s) + 1]

\* the filters of a chain: name, "=", argument token, then "," and the next
RECURSIVE FiltersFrom(_, _)
FiltersFrom(s, i) ==
  IF i > Len(s) THEN << >>
  ELSE LET nm == GetToken(s, i, { "=", ",", ";", "[" })
           hasArgs == nm.next <= Len(s) /\ s[nm.next] = "="
           ar == IF hasArgs
                   THEN GetToken(s, nm.next + 1, { "[", "]", ",", ";" })
                   ELSE [tok |-> << >>, next |-> nm.next]
           f == [name |-> nm.tok, args |-> ar.tok]
       IN IF ar.next <= Len(s) /\ s[ar.next] = ","
            THEN << f >> \o FiltersFrom(s, ar.next + 1)
            ELSE << f >>

ParseChain(expr) == FiltersFrom(expr, 1)

NotKeyChars == { BS, QT, ":", "%", ",", "=", "/", ")" }

\* end of the run of key characters that starts at i
RECURSIVE KeyEnd(_, _)
KeyEnd(s, i) ==
  IF i <= Len(s) /\ s[i] \notin NotKeyChars THEN KeyEnd(s, i + 1) ELSE i

\* the key=value fields of an argument string, split at ":"
RECURSIVE OptionsFrom(_, _)
OptionsFrom(s, i) ==
  IF i > Len(s) THEN << >>
  ELSE LET j == KeyEnd(s, i)
           keyed == j > i /\ j <= Len(s) /\ s[j] = "="
           val == GetToken(s, IF keyed THEN j + 1 ELSE i, { ":" })
           o == [key |-> IF keyed THEN SubSeq(s, i, j - 1) ELSE << >>,
                 value |-> val.tok]
       IN << o >> \o OptionsFrom(s, val.next + 1)

ParseOptions(args) == OptionsFrom(args, 1)

\* what the renderer shows for a text field written text='<escaped>'
RendererUnescape(escaped) ==
  GetToken(GetToken(<< QT >> \o escaped \o << QT >>, 1,
                    { "[", "]", ",", ";" }).tok,
           1, { ":" }).tok

EscapeInit ==
  /\ escRaw \in Strings
  /\ escCount \in 1..MaxCaptions
  /\ escText = << >>
  /\ escFont = << >>
  /\ escExpr = << >>
  /\ escPc = "raw"
  /\ escSegs = << >>
  /\ ClientParked
  /\ ActiveParked
  /\ ServerParked
  /\ LegacyParked
  /\ CleanupParked
  /\ PageParked
  /\ SessionParked
  /\ PipeParked

\* the two escapers applied to the raw string
Escape ==
  /\ escPc = "raw"
  /\ escText' = escapeFFmpegDrawtext(escRaw)
  /\ escFont' = escapeWindowsPathForFFmpeg(escRaw)
  /\ escPc' = "escaped"
  /\ UNCHANGED << escRaw, escCount, escExpr, escSegs >>
  /\ UNCHANGED << clientVars, activeVars, serverVars,
                  legacyVars, cleanupVars,
                  pageVars, sessionVars, pipeVars >>

\* const drawtextFilters = segments.map(...).join(',')
BuildFilters ==
  /\ escPc = "escaped"
  /\ escExpr' = JoinFilters(escRaw, escCount)
  /\ escPc' = "built"
  /\ UNCHANGED << escRaw, escCount, escText, escFont, escSegs >>
  /\ UNCHANGED << clientVars, activeVars, serverVars,
                  legacyVars, cleanupVars,
                  pageVars, sessionVars, pipeVars >>

EscapeNext == Escape \/ BuildFilters

SpecEscape == EscapeInit /\ [][EscapeNext]_vars

----------------------------------------------------------------------------
(* Server-side render request: POST of the render-video route *)

SrvMaxSegs == 1    \* segments in a request body
SrvMaxTime == 1    \* largest time value in a request body

SrvTimes == (0 - 1)..SrvMaxTime

Urls == { "http://media" }

FontKeys == { "roboto-bold", "lobster" }

\* the family name used as it was sent
ToLowerCaseOmitted(x) == x

\* String.prototype.toLowerCase on the family names of the model
ToLowerCase(x) == IF x = "Lobster" THEN "lobster" ELSE x

BodySegments ==
  [text: { Str("hi"), Num(0) },
   startTime: { Str("0") } \cup { Num(n) : n \in SrvTimes },
   endTime: { Str("0") } \cup { Num(n) : n \in SrvTimes },
   fontFamily: { Undefined, Str("roboto-bold"), Str("Lobster"), Num(0) }]

Bodies ==
  { NotJson } \cup
  [json: { TRUE },
   mediaUrl: { Undefined, Str("not a url"), Str("http://media") },
   isArray: { TRUE },
   segments: SeqsUpTo(BodySegments, SrvMaxSegs)] \cup
  [json: { TRUE },
   mediaUrl: { Undefined, Str("not a url"), Str("http://media") },
   isArray: { FALSE },
   segments: { << >> }]

\* the issues of AnimationSegmentSchemaWithFont for segment k, by field path
SegmentIssues(seg, k) ==
  { << "segments", k, f >> : f \in
      { g \in { "text", "startTime", "endTime", "fontFamily" } :
          \/ g = "text" /\ seg.text.type # "string"
          \/ g = "startTime" /\ seg.startTime.type # "number"
          \/ g = "endTime" /\ seg.endTime.type # "number"
          \/ g = "fontFamily"
               /\ seg.fontFamily.type \notin { "undefined", "string" } } }

\* a schema that checks mediaUrl only
IssuesMediaUrlOnly(body) ==
  IF body.mediaUrl.type = "string" /\ body.mediaUrl.str \in Urls
    THEN { } ELSE { << "mediaUrl" >> }

\* the issues RequestBodySchema.safeParse finds, by field path
Issues(body) ==
  (IF body.mediaUrl.type = "string" /\ body.mediaUrl.str \in Urls
     THEN { } ELSE { << "mediaUrl" >> })
  \cup
  (IF ~ body.isArray THEN { << "segments" >> }
   ELSE UNION { SegmentIssues(body.segments[k], k) :
                  k \in 1..Len(body.segments) })

\* fontMap.get('roboto-bold') || first value || undefined
DefaultFont(fontMap) ==
  IF "roboto-bold" \in fontMap THEN "roboto-bold"
  ELSE IF fontMap # { } THEN CHOOSE f \in fontMap : TRUE
  ELSE "undefined"

\* the draw operation the segments.map callback builds for one segment
SegmentFilter(seg, fontMap) ==
  LET fontFamily == IF seg.fontFamily.type = "string"
                      THEN ToLowerCase(seg.fontFamily.str)
                      ELSE "roboto-bold"
  IN [fontfile |-> IF fontFamily \in fontMap THEN fontFamily
                                              ELSE DefaultFont(fontMap),
      text |-> seg.text.str,
      startTime |-> seg.startTime.num,
      endTime |-> seg.endTime.num]

ServerInit ==
  /\ srvBody \in Bodies
  /\ srvFfmpegPath \in BOOLEAN
  /\ srvFontMap \in SUBSET FontKeys
  /\ srvPc = "json"
  /\ srvFetched = FALSE
  /\ srvSpawned = FALSE
  /\ srvFilters = << >>
  /\ srvStream = "none"
  /\ srvResponse = NoResponse
  /\ ServerProcInit
  /\ ClientParked
  /\ ActiveParked
  /\ EscapeParked
  /\ LegacyParked
  /\ CleanupParked
  /\ PageParked
  /\ SessionParked
  /\ PipeParked

\* the catch block: a 500 response with the error's message
Caught == [status |-> 500, kind |-> "error", details |-> { }]

\* await fontMapPromise; await req.json(): a body that is not JSON throws
ReadBody ==
  /\ srvPc = "json"
  /\ IF srvBody.json
       THEN /\ srvPc' = "validate"
            /\ UNCHANGED srvResponse
       ELSE /\ srvPc' = "done"
            /\ srvResponse' = Caught
  /\ UNCHANGED << srvBody, srvFfmpegPath, srvFontMap, srvFetched, srvSpawned,
                  srvFilters, srvStream, serverProcVars >>
  /\ UNCHANGED << clientVars, activeVars, escapeVars,
                  legacyVars, cleanupVars,
                  pageVars, sessionVars, pipeVars >>

\* the same block without the ffmpegPath check
ValidateNoPathCheck ==
  /\ srvPc = "validate"
  /\ IF Issues(srvBody) # { }
       THEN /\ srvResponse' = [status |-> 400, kind |-> "validation",
                               details |-> Issues(srvBody)]
            /\ srvPc' = "done"
            /\ UNCHANGED srvFetched
     ELSE IF DefaultFont(srvFontMap) = "undefined"
       THEN /\ srvResponse' = Caught
            /\ srvPc' = "done"
            /\ UNCHANGED srvFetched
     ELSE /\ srvFetched' = TRUE
          /\ srvPc' = "fetch"
          /\ UNCHANGED srvResponse
  /\ UNCHANGED << srvBody, srvFfmpegPath, srvFontMap, srvSpawned, srvFilters,
                  srvStream, serverProcVars >>
  /\ UNCHANGED << clientVars, activeVars, escapeVars,
                  legacyVars, cleanupVars,
                  pageVars, sessionVars, pipeVars >>

\* safeParse, the ffmpegPath check, the default font, then fetch(mediaUrl)
Validate ==
  /\ srvPc = "validate"
  /\ IF Issues(srvBody) # { }
       THEN /\ srvResponse' = [status |-> 400, kind |-> "validation",
                               details |-> Issues(srvBody)]
            /\ srvPc' = "done"
            /\ UNCHANGED srvFetched
     ELSE IF ~ srvFfmpegPath
       THEN /\ srvResponse' = [status |-> 500, kind |-> "config",
                               details |-> { }]
            /\ srvPc' = "done"
            /\ UNCHANGED srvFetched
     ELSE IF DefaultFont(srvFontMap) = "undefined"
       THEN /\ srvResponse' = Caught
            /\ srvPc' = "done"
            /\ UNCHANGED srvFetched
     ELSE /\ srvFetched' = TRUE
          /\ srvPc' = "fetch"
          /\ UNCHANGED srvResponse
  /\ UNCHANGED << srvBody, srvFfmpegPath, srvFontMap, srvSpawned, srvFilters,
                  srvStream, serverProcVars >>
  /\ UNCHANGED << clientVars, activeVars, escapeVars,
                  legacyVars, cleanupVars,
                  pageVars, sessionVars, pipeVars >>

FetchOutcomes == { "ok", "notOk", "noBody", "rejected" }

\* a response that passes the test of response.ok alone
FetchUsableOkOnly(outcome) == outcome \in { "ok", "noBody" }

\* fetch resolved and the test !response.ok || !response.body is false
FetchUsable(outcome) == outcome = "ok"

\* the fetch settles; on a usable response the filters are built, ffmpeg is
\* spawned and the video response is returned
FetchSettles ==
  /\ srvPc = "fetch"
  /\ \E outcome \in FetchOutcomes :
       /\ srvFetchResult' = outcome
       /\ IF FetchUsable(outcome)
            THEN /\ srvFilters' = [k \in 1..Len(srvBody.segments) |->
                                     SegmentFilter(srvBody.segments[k],
                                                   srvFontMap)]
                 /\ srvSpawned' = TRUE
                 /\ srvStream' = "open"
                 /\ srvResponse' = [status |-> 200, kind |-> "video",
                                    details |-> { }]
                 /\ srvPc' = "streaming"
            ELSE /\ srvResponse' = Caught
                 /\ srvPc' = "done"
                 /\ UNCHANGED << srvFilters, srvSpawned, srvStream >>
  /\ UNCHANGED << srvBody, srvFfmpegPath, srvFontMap, srvFetched >>
  /\ UNCHANGED << srvStderr, srvClose, srvStreamError >>
  /\ UNCHANGED << clientVars, activeVars, escapeVars,
                  legacyVars, cleanupVars,
                  pageVars, sessionVars, pipeVars >>

SrvMaxStderr == 2   \* chunks of stderr text a subprocess writes

StderrChunks == { "e1", "e2" }

ExitCodes == { 0, 1 }

\* stderr += data.toString()
AppendStderr(stderr, chunk) == Append(stderr, chunk)

\* ffmpegProcess.stderr.on('data')
StderrData ==
  /\ srvPc = "streaming"
  /\ srvStream = "open"
  /\ Len(srvStderr) < SrvMaxStderr
  /\ \E chunk \in StderrChunks : srvStderr' = AppendStderr(srvStderr, chunk)
  /\ UNCHANGED << srvBody, srvFfmpegPath, srvFontMap, srvPc, srvFetched,
                  srvSpawned, srvFilters, srvStream, srvResponse,
                  srvFetchResult, srvClose, srvStreamError >>
  /\ UNCHANGED << clientVars, activeVars, escapeVars,
                  legacyVars, cleanupVars,
                  pageVars, sessionVars, pipeVars >>

\* ffmpegProcess.on('error'): the subprocess could not be started and the
\* stream is destroyed with the spawn error; 'close' still follows
ProcessError ==
  /\ srvPc = "streaming"
  /\ srvStream = "open"
  /\ srvStderr = << >>
  /\ srvStream' = "destroyed"
  /\ srvStreamError' = [kind |-> "spawn", code |-> 0, stderr |-> << >>]
  /\ UNCHANGED << srvBody, srvFfmpegPath, srvFontMap, srvPc, srvFetched,
                  srvSpawned, srvFilters, srvResponse, srvFetchResult,
                  srvStderr, srvClose >>
  /\ UNCHANGED << clientVars, activeVars, escapeVars,
                  legacyVars, cleanupVars,
                  pageVars, sessionVars, pipeVars >>

\* a close handler that ends the stream whatever the code
ProcessCloseAlwaysEnds ==
  /\ srvPc = "streaming"
  /\ \E code \in ExitCodes :
       /\ srvClose' = [closed |-> TRUE, code |-> code]
       /\ IF srvStream # "open"
            THEN UNCHANGED << srvStream, srvStreamError >>
            ELSE /\ srvStream' = "ended"
                 /\ UNCHANGED srvStreamError
  /\ srvPc' = "done"
  /\ UNCHANGED << srvBody, srvFfmpegPath, srvFontMap, srvFetched, srvSpawned,
                  srvFilters, srvResponse, srvFetchResult, srvStderr >>
  /\ UNCHANGED << clientVars, activeVars, escapeVars,
                  legacyVars, cleanupVars,
                  pageVars, sessionVars, pipeVars >>

\* ffmpegProcess.on('close'): code 0 ends the stream, any other destroys it
\* with the code and the stderr text; ending or destroying a stream that is
\* already destroyed changes nothing
ProcessClose ==
  /\ srvPc = "streaming"
  /\ \E code \in ExitCodes :
       /\ srvClose' = [closed |-> TRUE, code |-> code]
       /\ IF srvStream # "open"
            THEN UNCHANGED << srvStream, srvStreamError >>
          ELSE IF code = 0
            THEN /\ srvStream' = "ended"
                 /\ UNCHANGED srvStreamError
          ELSE /\ srvStream' = "destroyed"
               /\ srvStreamError' = [kind |-> "exit", code |-> code,
                                     stderr |-> srvStderr]
  /\ srvPc' = "done"
  /\ UNCHANGED << srvBody, srvFfmpegPath, srvFontMap, srvFetched, srvSpawned,
                  srvFilters, srvResponse, srvFetchResult, srvStderr >>
  /\ UNCHANGED << clientVars, activeVars, escapeVars,
                  legacyVars, cleanupVars,
                  pageVars, sessionVars, pipeVars >>

ServerNext ==
  \/ ReadBody
  \/ Validate
  \/ FetchSettles
  \/ StderrData
  \/ ProcessError
  \/ ProcessClose

SpecServer == ServerInit /\ [][ServerNext]_vars

----------------------------------------------------------------------------
(* The filter-graph builder on a list of validated segments: the           *)
(* segments.map(...).join(',') of the POST handler                         *)

BldMaxSegs == 2    \* segments in the list given to the builder
BldMaxTime == 1    \* largest start or end time of a segment

BldTexts == { << "a" >>, << ",", QT >> }

BldFamilies == { "undefined", "Lobster" }

BldSegments ==
  [text : BldTexts, fontFamily : BldFamilies,
   startTime : 0..BldMaxTime, endTime : 0..BldMaxTime]

\* the resolved fontMap: family key -> path of the font file
BldFontMap ==
  [f \in { "roboto-bold", "lobster" } |->
     IF f = "roboto-bold" THEN FontPath
     ELSE << "C", ":", BS, "fonts", BS, "Lobster.ttf" >>]

\* the callback of segments.map: one draw operation for one segment
SegmentDrawtext(seg) ==
  LET fontFamily == IF seg.fontFamily = "undefined" THEN "roboto-bold"
                    ELSE ToLowerCase(seg.fontFamily)
      fontPath == IF fontFamily \in DOMAIN BldFontMap
                    THEN BldFontMap[fontFamily]
                    ELSE BldFontMap["roboto-bold"]
  IN DrawtextFilter(escapeWindowsPathForFFmpeg(fontPath),
                    escapeFFmpegDrawtext(seg.text),
                    seg.startTime, seg.endTime)

\* Array.prototype.map: the callback's result for every index, in order
MapSegments(segs) == [k \in 1..Len(segs) |-> SegmentDrawtext(segs[k])]

\* a join that walks the array from its last element to its first
RECURSIVE JoinBackwardsFrom(_, _)
JoinBackwardsFrom(parts, k) ==
  IF k < 1 THEN << >>
  ELSE (IF k < Len(parts) THEN << "," >> ELSE << >>)
       \o parts[k] \o JoinBackwardsFrom(parts, k - 1)

\* Array.prototype.join(','): the elements in index order with the
\* separator between neighbours
RECURSIVE JoinFrom(_, _)
JoinFrom(parts, k) ==
  IF k > Len(parts) THEN << >>
  ELSE (IF k > 1 THEN << "," >> ELSE << >>)
       \o parts[k] \o JoinFrom(parts, k + 1)

\* a comma join of the array taken from its end
JoinCommaReversed(parts) == JoinBackwardsFrom(parts, Len(parts))

JoinComma(parts) == JoinFrom(parts, 1)

BuilderInit ==
  /\ escSegs \in SeqsUpTo(BldSegments, BldMaxSegs)
  /\ escRaw = << >>
  /\ escCount = 0
  /\ escText = << >>
  /\ escFont = << >>
  /\ escExpr = << >>
  /\ escPc = "segments"
  /\ ClientParked
  /\ ActiveParked
  /\ ServerParked
  /\ LegacyParked
  /\ CleanupParked
  /\ PageParked
  /\ SessionParked
  /\ PipeParked

\* const drawtextFilters = segments.map(...).join(',')
BuildSegmentFilters ==
  /\ escPc = "segments"
  /\ escExpr' = JoinComma(MapSegments(escSegs))
  /\ escPc' = "joined"
  /\ UNCHANGED << escRaw, escCount, escText, escFont, escSegs >>
  /\ UNCHANGED << clientVars, activeVars, serverVars,
                  legacyVars, cleanupVars,
                  pageVars, sessionVars, pipeVars >>

BuilderNext == BuildSegmentFilters

SpecBuilder == BuilderInit /\ [][BuilderNext]_vars

----------------------------------------------------------------------------
(* The earlier render route: a module-level fontMap that initializeFonts    *)
(* fills after the module has loaded, and a POST that reads it              *)

LegMaxReqs == 2    \* requests in flight

DirFiles == { "Roboto-Bold.ttf", "Lobster.ttf", "notes.txt" }

\* file.toLowerCase().endsWith('.ttf')
IsTtf(file) == file \in { "Roboto-Bold.ttf", "Lobster.ttf" }

\* path.basename(file, '.ttf').toLowerCase()
FontKeyOf(file) == IF file = "Roboto-Bold.ttf" THEN "roboto-bold" ELSE "lobster"

Directories ==
  { [readable |-> FALSE, files |-> { }] } \cup
  [readable: { TRUE }, files: SUBSET DirFiles]

LegBodies ==
  { NotJson,
    [json |-> TRUE, mediaUrl |-> Undefined, isArray |-> TRUE,
     segments |-> << >>] } \cup
  { [json |-> TRUE, mediaUrl |-> Str("http://media"), isArray |-> TRUE,
     segments |-> << [text |-> Str("hi"), startTime |-> Num(0),
                      endTime |-> Num(1), fontFamily |-> ff] >>] :
      ff \in { Undefined, Str("Lobster") } }

NotSeen == [initDone |-> FALSE, entries |-> { }]

NewRequest(body) ==
  [pc |-> "new", body |-> body, fetched |-> FALSE, spawned |-> FALSE,
   resolved |-> FALSE, seen |-> NotSeen, fonts |-> << >>, status |-> 0]

LegacyInit ==
  /\ legDir \in Directories
  /\ legInitPc = "readdir"
  /\ legFontMap = { }
  /\ legFfmpegPath \in BOOLEAN
  /\ legReq \in [1..LegMaxReqs -> { NewRequest(b) : b \in LegBodies }]
  /\ ClientParked
  /\ ActiveParked
  /\ EscapeParked
  /\ ServerParked
  /\ CleanupParked
  /\ PageParked
  /\ SessionParked
  /\ PipeParked

\* the entries the for loop sets from the directory listing
ScannedEntries(files) ==
  { [key |-> FontKeyOf(f), path |-> f] : f \in { g \in files : IsTtf(g) } }

\* the entry the catch block sets when the directory cannot be read
FallbackEntries == { [key |-> "roboto-bold", path |-> "Roboto-Bold.ttf"] }

\* initializeFonts: fs.readdir settles; the map is filled from the listing,
\* or with the fallback path when readdir rejected
InitializeFonts ==
  /\ legInitPc = "readdir"
  /\ legFontMap' = IF legDir.readable THEN ScannedEntries(legDir.files)
                                      ELSE FallbackEntries
  /\ legInitPc' = "done"
  /\ UNCHANGED << legDir, legFfmpegPath, legReq >>
  /\ UNCHANGED << clientVars, activeVars, escapeVars, serverVars,
                  cleanupVars,
                  pageVars, sessionVars, pipeVars >>

\* POST up to the fetch: req.json(), safeParse, the ffmpegPath check
LegacyPost(r) ==
  /\ legReq[r].pc = "new"
  /\ LET req == legReq[r]
     IN legReq' = [legReq EXCEPT ![r] =
          IF ~ req.body.json
            THEN [req EXCEPT !.pc = "done", !.status = 500]
          ELSE IF Issues(req.body) # { }
            THEN [req EXCEPT !.pc = "done", !.status = 400]
          ELSE IF ~ legFfmpegPath
            THEN [req EXCEPT !.pc = "done", !.status = 500]
          ELSE [req EXCEPT !.pc = "fetch", !.fetched = TRUE]]
  /\ UNCHANGED << legDir, legInitPc, legFontMap, legFfmpegPath >>
  /\ UNCHANGED << clientVars, activeVars, escapeVars, serverVars,
                  cleanupVars,
                  pageVars, sessionVars, pipeVars >>

\* fontMap.get(key) on the entries
PathOf(entries, key) ==
  IF \E e \in entries : e.key = key
    THEN (CHOOSE e \in entries : e.key = key).path
    ELSE "undefined"

\* fontMap.get('roboto-bold') || Array.from(fontMap.values())[0]
LegacyDefaultPath(entries) ==
  IF PathOf(entries, "roboto-bold") # "undefined"
    THEN PathOf(entries, "roboto-bold")
  ELSE IF entries # { } THEN (CHOOSE e \in entries : TRUE).path
  ELSE "undefined"

\* the font path of one segment
LegacyFontPath(seg, entries) ==
  LET fontFamily == IF seg.fontFamily.type = "string"
                      THEN ToLowerCase(seg.fontFamily.str)
                      ELSE "roboto-bold"
  IN IF PathOf(entries, fontFamily) # "undefined"
       THEN PathOf(entries, fontFamily)
       ELSE LegacyDefaultPath(entries)

\* POST after the fetch: the response test, the default font read from the
\* module-level fontMap as it is now, the filters, the spawn
LegacyFetchSettles(r) ==
  /\ legReq[r].pc = "fetch"
  /\ \E outcome \in FetchOutcomes :
       LET req == legReq[r]
           seen == [initDone |-> legInitPc = "done", entries |-> legFontMap]
       IN legReq' = [legReq EXCEPT ![r] =
            IF ~ FetchUsable(outcome)
              THEN [req EXCEPT !.pc = "done", !.status = 500]
            ELSE IF LegacyDefaultPath(legFontMap) = "undefined"
              THEN [req EXCEPT !.pc = "done", !.status = 500,
                               !.resolved = TRUE, !.seen = seen]
            ELSE [req EXCEPT !.pc = "done", !.status = 200,
                             !.resolved = TRUE, !.seen = seen,
                             !.spawned = TRUE,
                             !.fonts = [k \in 1..Len(req.body.segments) |->
                                LegacyFontPath(req.body.segments[k],
                                               legFontMap)]]]
  /\ UNCHANGED << legDir, legInitPc, legFontMap, legFfmpegPath >>
  /\ UNCHANGED << clientVars, activeVars, escapeVars, serverVars,
                  cleanupVars,
                  pageVars, sessionVars, pipeVars >>

LegacyNext ==
  \/ InitializeFonts
  \/ \E r \in 1..LegMaxReqs : LegacyPost(r)
  \/ \E r \in 1..LegMaxReqs : LegacyFetchSettles(r)

SpecLegacy == LegacyInit /\ [][LegacyNext]_vars

----------------------------------------------------------------------------
(* The finally block of the current handleDownload: one try around the     *)
(* whole run of pathExists / deleteFile calls                               *)

ClnMaxFrames == 2    \* frames of the job being cleaned up

AnimationFile == "animation.webm"

\* the files the finally block goes through, in its order
CleanupOrder(n) ==
  [k \in 1..n |-> FrameFile(k - 1)] \o
  << AnimationFile, "input.mp4", "input.mp3", OutputFile >>

\* what the job can have left in the encoder's filesystem when it ends: a
\* prefix of the frames; once all frames are written, the animation, then
\* the source, then the output
LeftBehind(n) ==
  { { FrameFile(k) : k \in 0..(j - 1) } : j \in 0..n } \cup
  { { FrameFile(k) : k \in 0..(n - 1) } \cup anim \cup rest :
      anim \in SUBSET { AnimationFile },
      rest \in { { }, { "input.mp4" }, { "input.mp3" },
                 { "input.mp4", OutputFile }, { "input.mp3", OutputFile } } }

CleanupInit ==
  /\ clnNumFrames \in 0..ClnMaxFrames
  /\ clnFs \in LeftBehind(clnNumFrames)
  /\ clnStep = 1
  /\ clnAttempted = { }
  /\ clnPc = "loop"
  /\ ClientParked
  /\ ActiveParked
  /\ EscapeParked
  /\ ServerParked
  /\ LegacyParked
  /\ PageParked
  /\ SessionParked
  /\ PipeParked

\* the file of the current turn
CleanupFile == CleanupOrder(clnNumFrames)[clnStep]

\* the turn is over: the next file, or the end of the try block
CleanupAdvance ==
  /\ clnStep' = clnStep + 1
  /\ clnPc' = IF clnStep < Len(CleanupOrder(clnNumFrames)) THEN "loop"
                                                           ELSE "done"

\* one turn: pathExists resolved, and deleteFile, when called, resolved
CleanupTurn ==
  /\ clnPc = "loop"
  /\ clnAttempted' = clnAttempted \cup { CleanupFile }
  /\ clnFs' = clnFs \ { CleanupFile }
  /\ CleanupAdvance
  /\ UNCHANGED clnNumFrames
  /\ UNCHANGED << clientVars, activeVars, escapeVars, serverVars,
                  legacyVars,
                  pageVars, sessionVars, pipeVars >>

\* one turn in which pathExists or deleteFile rejected: control leaves the
\* try block for its catch, which only warns
CleanupRejected ==
  /\ clnPc = "loop"
  /\ clnAttempted' = clnAttempted \cup { CleanupFile }
  /\ clnPc' = "caught"
  /\ UNCHANGED << clnFs, clnNumFrames, clnStep >>
  /\ UNCHANGED << clientVars, activeVars, escapeVars, serverVars,
                  legacyVars,
                  pageVars, sessionVars, pipeVars >>

CleanupNext ==
  \/ CleanupTurn
  \/ CleanupRejected

SpecCleanup == CleanupInit /\ [][CleanupNext]_vars

----------------------------------------------------------------------------
(* A client session: the page keys AnimationPreview by the file name, and   *)
(* every mount of the component creates and loads its own FFmpeg instance   *)

SesMaxMounts == 3    \* mounts of AnimationPreview in a session
SesMaxJobs == 2      \* render jobs started in a session

FileNames == { "a.mp4", "b.mp4" }

\* useRef(new FFmpeg()) and the loadFFmpeg call of the mount effect
NewInstance == [load |-> "loading", listeners |-> 0]

SessionInit ==
  /\ sesFile = "undefined"
  /\ sesData = FALSE
  /\ sesInst = << NewInstance >>
  /\ sesJobs = << >>
  /\ ClientParked
  /\ ActiveParked
  /\ EscapeParked
  /\ ServerParked
  /\ LegacyParked
  /\ CleanupParked
  /\ PageParked
  /\ PipeParked

\* handleFileChange with an audio or video file: setFile, and
\* setAnimationData(null); a new file name is a new key, so the component is
\* mounted anew with a fresh FFmpeg instance that starts loading
HandleFileChange ==
  /\ \E name \in FileNames :
       /\ sesFile' = name
       /\ IF name = sesFile
            THEN sesInst' = sesInst
            ELSE /\ Len(sesInst) < SesMaxMounts
                 /\ sesInst' = Append(sesInst, NewInstance)
  /\ sesData' = FALSE
  /\ UNCHANGED sesJobs
  /\ UNCHANGED << clientVars, activeVars, escapeVars, serverVars,
                  legacyVars, cleanupVars, pageVars, pipeVars >>

\* handleGenerateAnimation: setAnimationData(result.data)
GenerateAnimation ==
  /\ sesFile # "undefined"
  /\ ~sesData
  /\ sesData' = TRUE
  /\ UNCHANGED << sesFile, sesInst, sesJobs >>
  /\ UNCHANGED << clientVars, activeVars, escapeVars, serverVars,
                  legacyVars, cleanupVars, pageVars, pipeVars >>

\* loadFFmpeg of instance i after the await of ffmpeg.load: the log and
\* progress listeners are registered (the call goes on after an unmount)
SessionLoad ==
  /\ \E i \in DOMAIN sesInst :
       /\ sesInst[i].load = "loading"
       /\ sesInst' = [sesInst EXCEPT ![i] =
                        [load |-> "loaded",
                         listeners |-> sesInst[i].listeners + 1]]
  /\ UNCHANGED << sesFile, sesData, sesJobs >>
  /\ UNCHANGED << clientVars, activeVars, escapeVars, serverVars,
                  legacyVars, cleanupVars, pageVars, pipeVars >>

\* handleDownload of the mounted component: the job runs on its instance
SessionDownload ==
  /\ sesData
  /\ sesInst[Len(sesInst)].load = "loaded"
  /\ Len(sesJobs) < SesMaxJobs
  /\ sesJobs' = Append(sesJobs, Len(sesInst))
  /\ UNCHANGED << sesFile, sesData, sesInst >>
  /\ UNCHANGED << clientVars, activeVars, escapeVars, serverVars,
                  legacyVars, cleanupVars, pageVars, pipeVars >>

SessionNext ==
  \/ HandleFileChange
  \/ GenerateAnimation
  \/ SessionLoad
  \/ SessionDownload

SpecSession == SessionInit /\ [][SessionNext]_vars

----------------------------------------------------------------------------
(* The streams of a spawned subprocess: the source is piped into its stdin, *)
(* its stdout is piped into the passthrough stream, and the response reads  *)
(* the passthrough; every buffer is bounded                                 *)

PipInput == 6    \* bytes of source media
PipCap == 1      \* capacity of each pipe and stream buffer

\* the state right after spawn, the two pipe() calls and the return of the
\* response
PipesInit ==
  /\ pipSource \in 0..PipInput
  /\ pipEnded = FALSE
  /\ pipStdin = 0
  /\ pipStdout = 0
  /\ pipPass = 0
  /\ pipProc = "running"
  /\ pipConsumer = "reading"
  /\ pipStream = "open"
  /\ pipSourceError = FALSE
  /\ pipStdinError = "none"
  /\ ClientParked
  /\ ActiveParked
  /\ EscapeParked
  /\ ServerParked
  /\ LegacyParked
  /\ CleanupParked
  /\ PageParked
  /\ SessionParked

\* inputStream.pipe(ffmpegProcess.stdin): a chunk goes into the stdin pipe
\* when it has room
PumpIn ==
  /\ pipSource > 0
  /\ ~pipEnded
  /\ pipStdin < PipCap
  /\ pipSource' = pipSource - 1
  /\ pipStdin' = pipStdin + 1
  /\ UNCHANGED << pipEnded, pipStdout, pipPass,
                  pipProc, pipConsumer, pipStream >>
  /\ UNCHANGED << pipSourceError, pipStdinError >>
  /\ UNCHANGED << clientVars, activeVars, escapeVars, serverVars,
                  legacyVars, cleanupVars, pageVars, sessionVars >>

\* inputStream.pipe(...): the source has ended, so stdin is ended
EndInput ==
  /\ pipSource = 0
  /\ ~pipEnded
  /\ pipEnded' = TRUE
  /\ UNCHANGED << pipSource, pipStdin, pipStdout,
                  pipPass, pipProc, pipConsumer, pipStream >>
  /\ UNCHANGED << pipSourceError, pipStdinError >>
  /\ UNCHANGED << clientVars, activeVars, escapeVars, serverVars,
                  legacyVars, cleanupVars, pageVars, sessionVars >>

\* the subprocess reads a chunk from stdin and writes its output to stdout;
\* it blocks while the stdout pipe is full
ProcStep ==
  /\ pipProc = "running"
  /\ pipStdin > 0
  /\ pipStdout < PipCap
  /\ pipStdin' = pipStdin - 1
  /\ pipStdout' = pipStdout + 1
  /\ UNCHANGED << pipSource, pipEnded, pipPass,
                  pipProc, pipConsumer, pipStream >>
  /\ UNCHANGED << pipSourceError, pipStdinError >>
  /\ UNCHANGED << clientVars, activeVars, escapeVars, serverVars,
                  legacyVars, cleanupVars, pageVars, sessionVars >>

\* the subprocess has read all of its ended input and exits
ProcExit ==
  /\ pipProc = "running"
  /\ pipEnded
  /\ pipStdin = 0
  /\ pipProc' = "exited"
  /\ UNCHANGED << pipSource, pipEnded, pipStdin,
                  pipStdout, pipPass, pipConsumer, pipStream >>
  /\ UNCHANGED << pipSourceError, pipStdinError >>
  /\ UNCHANGED << clientVars, activeVars, escapeVars, serverVars,
                  legacyVars, cleanupVars, pageVars, sessionVars >>

\* a copy of stdout that starts only when the input has been written
PumpOutAfterInput ==
  /\ pipEnded
  /\ pipStream = "open"
  /\ pipStdout > 0
  /\ pipPass < PipCap
  /\ pipStdout' = pipStdout - 1
  /\ pipPass' = pipPass + 1
  /\ UNCHANGED << pipSource, pipEnded, pipStdin,
                  pipProc, pipConsumer, pipStream >>
  /\ UNCHANGED << pipSourceError, pipStdinError >>
  /\ UNCHANGED << clientVars, activeVars, escapeVars, serverVars,
                  legacyVars, cleanupVars, pageVars, sessionVars >>

\* ffmpegProcess.stdout.pipe(passthrough): a chunk goes on while the
\* passthrough is open and has room
PumpOut ==
  /\ pipStream = "open"
  /\ pipStdout > 0
  /\ pipPass < PipCap
  /\ pipStdout' = pipStdout - 1
  /\ pipPass' = pipPass + 1
  /\ UNCHANGED << pipSource, pipEnded, pipStdin,
                  pipProc, pipConsumer, pipStream >>
  /\ UNCHANGED << pipSourceError, pipStdinError >>
  /\ UNCHANGED << clientVars, activeVars, escapeVars, serverVars,
                  legacyVars, cleanupVars, pageVars, sessionVars >>

\* the response body is read by its consumer
Consume ==
  /\ pipConsumer = "reading"
  /\ pipPass > 0
  /\ pipPass' = pipPass - 1
  /\ UNCHANGED << pipSource, pipEnded, pipStdin,
                  pipStdout, pipProc, pipConsumer, pipStream >>
  /\ UNCHANGED << pipSourceError, pipStdinError >>
  /\ UNCHANGED << clientVars, activeVars, escapeVars, serverVars,
                  legacyVars, cleanupVars, pageVars, sessionVars >>

\* ffmpegProcess.on('close'): the subprocess has exited and its stdout has
\* been read to the end; the passthrough, if still open, is ended
PipeClose ==
  /\ pipProc = "exited"
  /\ pipStdout = 0
  /\ pipProc' = "closed"
  /\ pipStream' = IF pipStream = "open" THEN "ended" ELSE pipStream
  /\ UNCHANGED << pipSource, pipEnded, pipStdin,
                  pipStdout, pipPass, pipConsumer >>
  /\ UNCHANGED << pipSourceError, pipStdinError >>
  /\ UNCHANGED << clientVars, activeVars, escapeVars, serverVars,
                  legacyVars, cleanupVars, pageVars, sessionVars >>

\* the consumer of the response aborts or disconnects: the body is no longer
\* read, and the passthrough is destroyed or left as it is; no handler of
\* POST is told
ConsumerAbort ==
  /\ pipConsumer = "reading"
  /\ pipProc # "closed"
  /\ pipConsumer' = "aborted"
  /\ \E destroyed \in BOOLEAN :
       IF destroyed THEN pipStream' = "destroyed" /\ pipPass' = 0
                    ELSE UNCHANGED << pipStream, pipPass >>
  /\ UNCHANGED << pipSource, pipEnded, pipStdin, pipStdout, pipProc >>
  /\ UNCHANGED << pipSourceError, pipStdinError >>
  /\ UNCHANGED << clientVars, activeVars, escapeVars, serverVars,
                  legacyVars, cleanupVars, pageVars, sessionVars >>

\* the steps of the subprocess and of the streams
PipeProgress ==
  \/ PumpIn
  \/ EndInput
  \/ ProcStep
  \/ ProcExit
  \/ PumpOut
  \/ Consume
  \/ PipeClose

PipesNext ==
  \/ PipeProgress
  \/ ConsumerAbort

SpecPipes == PipesInit /\ [][PipesNext]_vars

----------------------------------------------------------------------------
(* The same streams when the subprocess exits before it has read its input *)
(* or the source media stream fails part-way                               *)

\* the listeners POST registers on ffmpegProcess.stdin and on inputStream:
\* none ('data' on stderr, 'error' and 'close' on the subprocess are all)
StdinListeners == { }
SourceListeners == { }

\* a chunk of the source goes into the stdin pipe of the running subprocess
FaultPumpIn ==
  /\ ~pipSourceError
  /\ pipStdinError = "none"
  /\ pipProc = "running"
  /\ PumpIn

\* the source has ended and stdin is ended
FaultEndInput ==
  /\ ~pipSourceError
  /\ pipStdinError = "none"
  /\ EndInput

\* the subprocess stops on an error of its own (a filter it cannot build, an
\* input it cannot read) before its input is complete: the read end of its
\* stdin is gone with what was buffered in it
ProcFails ==
  /\ pipProc = "running"
  /\ ~(pipEnded /\ pipStdin = 0)
  /\ pipProc' = "failed"
  /\ pipStdin' = 0
  /\ UNCHANGED << pipSource, pipEnded, pipStdout, pipPass, pipConsumer,
                  pipStream, pipSourceError, pipStdinError >>
  /\ UNCHANGED << clientVars, activeVars, escapeVars, serverVars,
                  legacyVars, cleanupVars, pageVars, sessionVars >>

\* inputStream.pipe(ffmpegProcess.stdin) writes the next chunk into the pipe
\* whose reader is gone: the write fails and stdin emits 'error'.  pipe()
\* removes itself and passes the error on to the listeners of stdin; with
\* none registered the error is thrown out of the event loop's turn
StdinWriteFails ==
  /\ pipProc = "failed"
  /\ pipSource > 0
  /\ ~pipEnded
  /\ ~pipSourceError
  /\ pipStdinError = "none"
  /\ pipSource' = pipSource - 1
  /\ pipStdinError' = IF "error" \in StdinListeners THEN "handled"
                      ELSE "unhandled"
  /\ UNCHANGED << pipEnded, pipStdin, pipStdout, pipPass, pipProc,
                  pipConsumer, pipStream, pipSourceError >>
  /\ UNCHANGED << clientVars, activeVars, escapeVars, serverVars,
                  legacyVars, cleanupVars, pageVars, sessionVars >>

\* the exit of the subprocess is seen before another chunk is written: its
\* stdin is destroyed and pipe() stops copying
StdinClosedOnExit ==
  /\ pipProc = "failed"
  /\ ~pipEnded
  /\ pipStdinError = "none"
  /\ pipEnded' = TRUE
  /\ UNCHANGED << pipSource, pipStdin, pipStdout, pipPass, pipProc,
                  pipConsumer, pipStream, pipSourceError, pipStdinError >>
  /\ UNCHANGED << clientVars, activeVars, escapeVars, serverVars,
                  legacyVars, cleanupVars, pageVars, sessionVars >>

\* ffmpegProcess.on('close') with a code other than 0: the passthrough is
\* destroyed with the exit code and the stderr text
PipeCloseFailed ==
  /\ pipProc = "failed"
  /\ pipStdout = 0
  /\ pipProc' = "closed"
  /\ pipStream' = IF pipStream = "open" THEN "destroyed" ELSE pipStream
  /\ pipPass' = IF pipStream = "open" THEN 0 ELSE pipPass
  /\ UNCHANGED << pipSource, pipEnded, pipStdin, pipStdout, pipConsumer,
                  pipSourceError, pipStdinError >>
  /\ UNCHANGED << clientVars, activeVars, escapeVars, serverVars,
                  legacyVars, cleanupVars, pageVars, sessionVars >>

\* the source media stream fails part-way: inputStream emits 'error'.
\* pipe() does not end its destination when the source fails, and POST has
\* no listener on inputStream, so the error is thrown out of the event
\* loop's turn: either the server process dies with it, and the subprocess
\* and the response with the server, or a process-wide handler of the host
\* swallows it and everything stays as it is
SourceFails ==
  /\ pipSource > 0
  /\ ~pipEnded
  /\ ~pipSourceError
  /\ pipProc = "running"
  /\ pipSourceError' = TRUE
  /\ \E serverDies \in BOOLEAN :
       IF serverDies /\ "error" \notin SourceListeners
         THEN /\ pipProc' = "closed"
              /\ pipStream' = "destroyed"
              /\ pipStdin' = 0
              /\ pipStdout' = 0
              /\ pipPass' = 0
         ELSE UNCHANGED << pipProc, pipStream, pipStdin, pipStdout, pipPass >>
  /\ UNCHANGED << pipSource, pipEnded, pipConsumer, pipStdinError >>
  /\ UNCHANGED << clientVars, activeVars, escapeVars, serverVars,
                  legacyVars, cleanupVars, pageVars, sessionVars >>

\* the steps the job, the streams and the subprocess take by themselves
FaultProgress ==
  \/ FaultPumpIn
  \/ FaultEndInput
  \/ ProcStep
  \/ ProcExit
  \/ PumpOut
  \/ Consume
  \/ PipeClose
  \/ StdinWriteFails
  \/ StdinClosedOnExit
  \/ PipeCloseFailed

PipeFaultsNext ==
  \/ FaultProgress
  \/ ProcFails
  \/ SourceFails

SpecPipeFaults == PipesInit /\ [][PipeFaultsNext]_vars

----------------------------------------------------------------------------
(* The memoised totalDuration of the client component and the start of a   *)
(* render job.  useMemo recomputes the value only while the component      *)
(* renders; the media element has no event handler, so its duration        *)
(* becoming known sets no state and causes no render.                      *)

\* the first render: mediaRef.current is still null
MemoInit ==
  /\ data \in Timelines
  /\ isVideo \in BOOLEAN
  /\ totalDuration = TotalDurationOf(data, 0)
  /\ ffmpegLoaded = FALSE
  /\ isRendering = FALSE
  /\ renderProgress = Frac(0, 1)
  /\ renderMessage = ""
  /\ currentSegments = << >>
  /\ mediaTime = 0
  /\ pc = "idle"
  /\ frame = 0
  /\ duration = 0
  /\ numFrames = 0
  /\ cleanupFiles = << >>
  /\ fs = {}
  /\ audioExists = FALSE
  /\ capture = [k \in FrameIdx |-> "none"]
  /\ image = [k \in FrameIdx |-> NoImage]
  /\ execP = 0
  /\ cleanupIdx = 0
  /\ toast = "none"
  /\ unmounted = FALSE
  /\ elementDuration = 0
  /\ isPlaying = FALSE
  /\ playRequest = "none"
  /\ mediaOpacity = "1"
  /\ ActiveParked
  /\ EscapeParked
  /\ ServerParked
  /\ LegacyParked
  /\ CleanupParked
  /\ SessionParked
  /\ PipeParked

\* the media element has read the metadata of its source
LoadedMetadata ==
  /\ elementDuration = 0
  /\ elementDuration' \in MediaDurations \ { 0 }
  /\ UNCHANGED << unmounted, isPlaying, playRequest, mediaOpacity >>
  /\ UNCHANGED << clientVars, activeVars, escapeVars, serverVars,
                  legacyVars, cleanupVars, sessionVars, pipeVars >>

\* a render of the component: useMemo compares [data, mediaRef.current
\* ?.duration] with the last render's and recomputes totalDuration
Render ==
  totalDuration' = TotalDurationOf(data, elementDuration)

\* a state change of the idle component other than the encoder's loading,
\* such as setAspectRatio or the effect on [data, mediaUrl]: it renders
SetStateIdle ==
  /\ pc = "idle"
  /\ Render
  /\ UNCHANGED << activeVars, escapeVars, serverVars,
                  legacyVars, cleanupVars,
                  pageVars, sessionVars, pipeVars >>
  /\ UNCHANGED << data, isVideo, ffmpegLoaded, isRendering, renderProgress,
                  renderMessage, currentSegments, mediaTime, pc, frame,
                  duration, numFrames, cleanupFiles, fs, audioExists,
                  capture, image, execP, cleanupIdx, toast >>

\* loadFFmpeg is over: setFfmpegLoaded(true) and the render it causes
LoadFFmpegRender ==
  /\ ~ffmpegLoaded
  /\ ffmpegLoaded' = TRUE
  /\ renderMessage' = ""
  /\ Render
  /\ UNCHANGED << activeVars, escapeVars, serverVars,
                  legacyVars, cleanupVars,
                  pageVars, sessionVars, pipeVars >>
  /\ UNCHANGED << data, isVideo, isRendering, renderProgress,
                  currentSegments, mediaTime, pc, frame, duration, numFrames,
                  cleanupFiles, fs, audioExists, capture, image, execP,
                  cleanupIdx, toast >>

MemoNext ==
  \/ LoadedMetadata
  \/ SetStateIdle
  \/ LoadFFmpegRender
  \/ HandleDownload

SpecMemo == MemoInit /\ [][MemoNext]_vars

----------------------------------------------------------------------------
(* The playback controls and the sampler of a render job.  The buttons are *)
(* disabled while isRendering is set, so what can still act during a job   *)
(* is what was under way when the job started.                             *)

\* handlePlayPause with a media element: pause when playing; else
\* media.play(), whose promise either waits in the element's list for data
\* or, with data at hand, is taken out of the list at once to be resolved
\* in a task the element queues
HandlePlayPause ==
  /\ pc = "idle"
  /\ ~isRendering
  /\ IF isPlaying
       THEN /\ isPlaying' = FALSE
            /\ playRequest' = PauseMedia(playRequest)
       ELSE /\ playRequest \notin { "waiting", "notified" }
            /\ playRequest' \in { "waiting", "notified" }
            /\ UNCHANGED isPlaying
  /\ UNCHANGED << unmounted, elementDuration, mediaOpacity >>
  /\ UNCHANGED << clientVars, activeVars, escapeVars, serverVars,
                  legacyVars, cleanupVars, sessionVars, pipeVars >>

\* the element has the data to play: it takes the promise out of its list
\* and queues the task that resolves it
PlayNotified ==
  /\ playRequest = "waiting"
  /\ playRequest' = "notified"
  /\ UNCHANGED << unmounted, elementDuration, isPlaying, mediaOpacity >>
  /\ UNCHANGED << clientVars, activeVars, escapeVars, serverVars,
                  legacyVars, cleanupVars, sessionVars, pipeVars >>

\* the queued task runs: .then(() => setIsPlaying(true))
PlayResolves ==
  /\ playRequest = "notified"
  /\ playRequest' = "resolved"
  /\ isPlaying' = TRUE
  /\ UNCHANGED << unmounted, elementDuration, mediaOpacity >>
  /\ UNCHANGED << clientVars, activeVars, escapeVars, serverVars,
                  legacyVars, cleanupVars, sessionVars, pipeVars >>

\* updateCurrentSegments, the animation-frame callback while isPlaying: the
\* segments active at media.currentTime replace the displayed ones
UpdateCurrentSegments ==
  /\ isPlaying
  /\ currentSegments' = ActiveAt(data, mediaTime)
  /\ UNCHANGED << activeVars, escapeVars, serverVars,
                  legacyVars, cleanupVars,
                  pageVars, sessionVars, pipeVars >>
  /\ UNCHANGED << data, isVideo, totalDuration, ffmpegLoaded, isRendering,
                  renderProgress, renderMessage, mediaTime, pc, frame,
                  duration, numFrames, cleanupFiles, fs, audioExists,
                  capture, image, execP, cleanupIdx, toast >>

PlaybackNext ==
  \/ LoadFFmpeg
  \/ HandlePlayPause
  \/ PlayNotified
  \/ PlayResolves
  \/ UpdateCurrentSegments
  \/ HandleDownload
  \/ FetchFileOk
  \/ WriteSource
  \/ ExecAudioDone
  \/ ExecAudioThrow
  \/ ReadAudio
  \/ AfterSleep40
  \/ AfterSleep10

SpecPlayback == Init /\ [][PlaybackNext]_vars

----------------------------------------------------------------------------
(* Client-side render job, the handleDownload that hides the media element *)
(* while it captures the frames (components/animation-preview.tsx)         *)

\* the awaits of the job after the captures, in order
HidStages ==
  << "writeFrames", "execAnimation", "fetchSource", "writeSource",
     "execCombine", "readOutput" >>

\* head of the capture loop for index i of n frames: show the segments
\* active at the frame's time and sleep(10), or leave the loop and await
\* Promise.all
HidLoopHead(i, n) ==
  /\ frame' = i
  /\ IF i < n
       THEN /\ currentSegments' = ActiveAt(data, FrameTime(i))
            /\ pc' = "sleep10"
       ELSE /\ currentSegments' = currentSegments
            /\ pc' = "awaitAll"

\* handleDownload up to its first await: the media element is hidden
HidHandleDownload ==
  /\ pc = "idle"
  /\ ~isRendering
  /\ ffmpegLoaded
  /\ isRendering' = TRUE
  /\ isPlaying' = FALSE
  /\ playRequest' = PauseMedia(playRequest)
  /\ duration' = totalDuration
  /\ numFrames' = NumFramesOf(totalDuration)
  /\ renderMessage' = "Capturing animation frames..."
  /\ mediaOpacity' = "0"
  /\ HidLoopHead(0, NumFramesOf(totalDuration))
  /\ UNCHANGED << unmounted, elementDuration >>
  /\ UNCHANGED << activeVars, escapeVars, serverVars,
                  legacyVars, cleanupVars,
                  sessionVars, pipeVars >>
  /\ UNCHANGED << data, isVideo, totalDuration, ffmpegLoaded,
                  renderProgress, mediaTime, cleanupFiles, fs, audioExists,
                  capture, image, execP, cleanupIdx, toast >>

\* after sleep(10): toPng is called and its promise pushed, not awaited;
\* setRenderProgress((i / numFrames) * 50); then the next iteration
HidAfterSleep10 ==
  /\ pc = "sleep10"
  /\ capture' = [capture EXCEPT ![frame] = "pending"]
  /\ renderProgress' = Frac(50 * frame, numFrames)
  /\ HidLoopHead(frame + 1, numFrames)
  /\ UNCHANGED << activeVars, escapeVars, serverVars,
                  legacyVars, cleanupVars,
                  pageVars, sessionVars, pipeVars >>
  /\ UNCHANGED << data, isVideo, totalDuration, ffmpegLoaded, isRendering,
                  renderMessage, mediaTime, duration, numFrames,
                  cleanupFiles, fs, audioExists, image, execP, cleanupIdx,
                  toast >>

\* Promise.all(framePromises) resolved: the media element is shown again
\* and the frames are written
HidAwaitAllOk ==
  /\ pc = "awaitAll"
  /\ \A k \in 0..(numFrames - 1) : capture[k] = "done"
  /\ mediaOpacity' = "1"
  /\ renderMessage' = "Writing frames to FFmpeg..."
  /\ pc' = HidStages[1]
  /\ UNCHANGED << unmounted, elementDuration, isPlaying, playRequest >>
  /\ UNCHANGED << activeVars, escapeVars, serverVars,
                  legacyVars, cleanupVars,
                  sessionVars, pipeVars >>
  /\ UNCHANGED << data, isVideo, totalDuration, ffmpegLoaded, isRendering,
                  renderProgress, currentSegments, mediaTime, frame,
                  duration, numFrames, cleanupFiles, fs, audioExists,
                  capture, image, execP, cleanupIdx, toast >>

\* the await of one later stage resolved: the next stage, or after the
\* output was read the download, the success toast and the finally block
HidStageOk ==
  /\ \E k \in 1..Len(HidStages) :
       /\ pc = HidStages[k]
       /\ IF k < Len(HidStages)
            THEN /\ pc' = HidStages[k + 1]
                 /\ UNCHANGED << toast, isRendering, renderProgress,
                                 renderMessage, cleanupIdx >>
            ELSE Finally("complete")
  /\ UNCHANGED << activeVars, escapeVars, serverVars,
                  legacyVars, cleanupVars,
                  pageVars, sessionVars, pipeVars >>
  /\ UNCHANGED << data, isVideo, totalDuration, ffmpegLoaded,
                  currentSegments, mediaTime, frame, duration, numFrames,
                  cleanupFiles, fs, audioExists, capture, image, execP >>

\* the await of one later stage rejected: catch and finally
HidStageThrow ==
  /\ pc \in Range(HidStages)
  /\ Finally("failed")
  /\ UNCHANGED << activeVars, escapeVars, serverVars,
                  legacyVars, cleanupVars,
                  pageVars, sessionVars, pipeVars >>
  /\ UNCHANGED << data, isVideo, totalDuration, ffmpegLoaded,
                  currentSegments, mediaTime, frame, duration, numFrames,
                  cleanupFiles, fs, audioExists, capture, image, execP >>

HiddenNext ==
  \/ LoadFFmpeg
  \/ HidHandleDownload
  \/ HidAfterSleep10
  \/ CaptureResolve
  \/ CaptureReject
  \/ HidAwaitAllOk
  \/ AwaitAllFail
  \/ HidStageOk
  \/ HidStageThrow

SpecHidden == Init /\ [][HiddenNext]_vars

----------------------------------------------------------------------------
(* Claims about escaping and the filter expression *)

\* C5: for every string s the renderer's unescaping of escapeText(s) is s
\* again: no character is dropped, added or changed.
C5_EscapeRoundTrip ==
  escPc \in { "escaped", "built" } => RendererUnescape(escText) = escRaw

\* the draw operations the renderer reads out of the built expression
ParsedFilters == ParseChain(escExpr)

OptionKeys ==
  << << "fontfile" >>, << "text" >>, << "fontcolor" >>, << "fontsize" >>,
     << "box" >>, << "boxcolor" >>, << "boxborderw" >>, << "x" >>, << "y" >>,
     << "enable" >> >>

\* C6: the built filter expression parses back to exactly one draw operation
\* per segment, each with the options the builder wrote and the segment's
\* original caption as its text.
C6_ExpressionParsesBack ==
  escPc = "built" =>
    /\ Len(ParsedFilters) = escCount
    /\ \A k \in 1..Len(ParsedFilters) :
         LET opts == ParseOptions(ParsedFilters[k].args)
         IN /\ ParsedFilters[k].name = << "drawtext" >>
            /\ Len(opts) = Len(OptionKeys)
            /\ \A j \in 1..Len(opts) : opts[j].key = OptionKeys[j]
            /\ Len(opts) >= 2 => opts[2].value = escRaw

\* a backslash, quote, colon or percent sign of s that no backslash precedes
\* as its escape, reading s from the left
RECURSIVE UnescapedFrom(_, _)
UnescapedFrom(s, i) ==
  IF i > Len(s) THEN FALSE
  ELSE IF s[i] = BS
    THEN (IF i = Len(s) THEN TRUE ELSE UnescapedFrom(s, i + 2))
  ELSE IF s[i] \in { QT, ":", "%" } THEN TRUE
  ELSE UnescapedFrom(s, i + 1)

\* C7: the output of escapeText and of escapePath holds no unescaped
\* backslash, single quote, colon or percent sign.
C7_MetaCharactersNeutralised ==
  escPc \in { "escaped", "built" } =>
    /\ ~ UnescapedFrom(escText, 1)
    /\ ~ UnescapedFrom(escFont, 1)
    /\ ~ UnescapedFrom(escapeFFmpegDrawtextNoPercent(escRaw), 1)
    /\ ~ UnescapedFrom(escapeFFmpegText(escRaw), 1)

----------------------------------------------------------------------------
(* Claims about the server-side render request *)

\* C8: a job whose timeline has no segment is rejected in validation: no
\* media is fetched, no encoder is started, and the response the caller gets
\* is the validation failure.
C8_EmptyTimelineRejected ==
  (srvBody.json /\ srvBody.isArray /\ Len(srvBody.segments) = 0) =>
    /\ ~ srvFetched
    /\ ~ srvSpawned
    /\ srvResponse # NoResponse => srvResponse.kind = "validation"

\* C9: every segment the filter-graph builder has turned into a draw
\* operation satisfies 0 <= startTime < endTime.
C9_BuiltSegmentsWellFormed ==
  \A k \in 1..Len(srvFilters) :
    /\ 0 <= srvFilters[k].startTime
    /\ srvFilters[k].startTime < srvFilters[k].endTime

\* the body is JSON that the request schema does not accept: mediaUrl is not
\* a URL string, segments is not an array, or a segment has a text that is
\* not a string, a time that is not a number, or a fontFamily that is
\* neither absent nor a string
SchemaInvalid ==
  /\ srvBody.json
  /\ \/ srvBody.mediaUrl \notin { Str(u) : u \in Urls }
     \/ ~ srvBody.isArray
     \/ \E k \in 1..Len(srvBody.segments) :
          LET seg == srvBody.segments[k]
          IN \/ seg.text.type # "string"
             \/ seg.startTime.type # "number"
             \/ seg.endTime.type # "number"
             \/ seg.fontFamily.type = "number"

\* C10: a request whose body fails schema validation never has its media
\* fetched nor an encoder spawned, and the response it gets is the 400
\* validation response, whose details name at least one field and only
\* fields of the body.
C10_InvalidBody400BeforeResources ==
  SchemaInvalid =>
    /\ ~ srvFetched
    /\ ~ srvSpawned
    /\ srvResponse # NoResponse =>
         /\ srvResponse.status = 400
         /\ srvResponse.kind = "validation"
         /\ srvResponse.details # { }
         /\ \A d \in srvResponse.details :
              d[1] \in { "mediaUrl", "segments" }

\* a body whose only fault is inside a segment has been answered
C10_Witness ==
  /\ srvPc = "done"
  /\ srvBody.json
  /\ srvBody.mediaUrl = Str("http://media")
  /\ srvFfmpegPath
  /\ srvFontMap # { }
  /\ Len(srvBody.segments) = 1
  /\ srvBody.segments[1].endTime.type = "string"
  /\ srvResponse.status = 400
  /\ << "segments", 1, "endTime" >> \in srvResponse.details

\* C11 as stated: with no encoder location configured, every request ends in
\* the encoder-unavailable response, and the media is never fetched nor an
\* encoder spawned.
C11_EveryRequestEncoderUnavailable ==
  ~ srvFfmpegPath =>
    /\ ~ srvFetched
    /\ ~ srvSpawned
    /\ srvResponse # NoResponse => srvResponse.kind = "config"

\* C11 amended: with no encoder location configured, every request ends in a
\* failure response returned by POST, the media is never fetched and no
\* encoder is spawned; a request whose body passes the schema gets the
\* encoder-unavailable response, a body that is not JSON or fails the schema
\* gets the response of that earlier check.
C11_UnconfiguredNeverStarts ==
  (~ srvFfmpegPath /\ srvPc # "parked") =>
    /\ ~ srvFetched
    /\ ~ srvSpawned
    /\ srvStream = "none"
    /\ srvPc = "done" => srvResponse.status \in { 400, 500 }
    /\ (srvPc = "done" /\ srvBody.json /\ ~ SchemaInvalid) =>
         /\ srvResponse.status = 500
         /\ srvResponse.kind = "config"

\* a schema-valid request with a segment and a font catalog was answered
\* while the encoder location was not configured
C11_Witness ==
  /\ ~ srvFfmpegPath
  /\ srvPc = "done"
  /\ srvBody.json
  /\ ~ SchemaInvalid
  /\ Len(srvBody.segments) = 1
  /\ srvFontMap # { }
  /\ srvResponse.kind = "config"

\* C12: when the media fetch is rejected, answers non-OK or has no body,
\* the request has ended in the 500 failure response and no encoder
\* subprocess was spawned.
C12_FetchFailureNeverSpawns ==
  srvFetchResult \in { "rejected", "notOk", "noBody" } =>
    /\ srvPc = "done"
    /\ srvResponse.status = 500
    /\ srvResponse.kind = "error"
    /\ ~ srvSpawned
    /\ srvStream = "none"
    /\ srvFilters = << >>

\* the fetch resolved with an OK response that has no body
C12_Witness ==
  /\ srvFetchResult = "noBody"
  /\ srvFetched
  /\ srvPc = "done"
  /\ Len(srvBody.segments) = 1

RequestedKey(seg) ==
  IF seg.fontFamily.type # "string" THEN "roboto-bold"
  ELSE IF seg.fontFamily.str = "Lobster" THEN "lobster"
  ELSE seg.fontFamily.str

\* C14: once the filters are built there is one draw operation per segment,
\* and each one's font is an entry of the catalog: the entry of the requested
\* family in lower case when the catalog has it, otherwise the default entry
\* (roboto-bold when the catalog has it).
C14_FontResolvesToCatalogEntry ==
  srvSpawned =>
    /\ Len(srvFilters) = Len(srvBody.segments)
    /\ \A k \in 1..Len(srvFilters) :
         LET want == RequestedKey(srvBody.segments[k])
             got == srvFilters[k].fontfile
         IN /\ got \in srvFontMap
            /\ want \in srvFontMap => got = want
            /\ (want \notin srvFontMap /\ "roboto-bold" \in srvFontMap) =>
                 got = "roboto-bold"

\* a segment that names a family the catalog does not have was drawn with
\* the default font
C14_Witness ==
  /\ srvSpawned
  /\ Len(srvBody.segments) = 1
  /\ srvBody.segments[1].fontFamily = Str("Lobster")
  /\ srvFontMap = { "roboto-bold" }
  /\ srvFilters[1].fontfile = "roboto-bold"

\* the font files the directory listing holds
DiscoveredPaths == IF legDir.readable
                     THEN { f \in legDir.files : IsTtf(f) }
                     ELSE { }

(* C13: when the font directory holds no font file or cannot be read, the   *)
(* catalog is empty once start-up has finished, and no request fetches the  *)
(* media, spawns the encoder or uses a font path that was not discovered    *)
(* in the directory.                                                        *)
C13_NoFontsNoPipeline ==
  DiscoveredPaths = { } =>
    /\ legInitPc = "done" => legFontMap = { }
    /\ \A r \in DOMAIN legReq :
         /\ ~ legReq[r].fetched
         /\ ~ legReq[r].spawned
         /\ Range(legReq[r].fonts) \subseteq DiscoveredPaths

(* C15: no request resolves a font against a catalog that is still being    *)
(* populated, and all requests that resolve fonts observe the same catalog. *)
C15_CatalogBuiltBeforeRequests ==
  \A r \in DOMAIN legReq :
    legReq[r].resolved =>
      /\ legReq[r].seen.initDone
      /\ \A q \in DOMAIN legReq :
           legReq[q].resolved =>
             legReq[q].seen.entries = legReq[r].seen.entries

----------------------------------------------------------------------------
(* Claims about the client-side render job *)

\* C1: for every frame index i, the capture of frame i has completed before
\* the sampler seeks the media or changes the displayed segment set toward
\* frame i+1 (the sampler is past the seek of frame `frame` when it is
\* suspended in that iteration's sleep(40) or sleep(10)), so every finished
\* image shows exactly the segments active at its own frame time.
C1_CaptureBeforeNextFrame ==
  /\ (pc \in { "sleep40", "sleep10" } /\ frame >= 1)
       => capture[frame - 1] = "done"
  /\ \A k \in FrameIdx :
       capture[k] = "done" => image[k] = ActiveAt(data, FrameTime(k))

\* C2: over one render job the values given to the progress display never
\* decrease (the reset to 0 that ends the job is left out), and the value on
\* display when a job succeeds is exactly 100.
C2_ProgressMonotoneFinal100 ==
  [][ /\ (isRendering /\ isRendering')
           => FracLeq(renderProgress, renderProgress')
      /\ (pc = "readOutput" /\ toast' = "complete")
           => FracIs(renderProgress, 100) ]_vars

StartedCaptures == { k \in FrameIdx : capture[k] # "none" }

\* the stages of a job after the capture loop has been left
AfterCaptureLoop ==
  { "awaitAll", "writeFrame", "execEncode", "execMux", "rename",
    "readOutput" }

EncodeStages ==
  { "writeFrame", "execEncode", "execMux", "rename", "readOutput" }

(* C17: when the capture of any frame fails, the job ends in failure and    *)
(* neither the frame writes nor the encode or mux command are reached: the  *)
(* encoder only ever runs on the full set of frames 0..numFrames-1, each    *)
(* captured successfully and written.                                       *)
C17_CaptureFailureAbortsJob ==
  /\ pc \in EncodeStages =>
       \A k \in 0..(numFrames - 1) : capture[k] = "done"
  /\ pc \in { "execEncode", "execMux" } =>
       \A k \in 0..(numFrames - 1) : FrameFile(k) \in fs
  /\ (pc \in { "cleanup", "done" } /\ \E k \in FrameIdx : capture[k] = "failed")
       => toast = "failed"

C17_Witness ==
  /\ pc = "done"
  /\ numFrames = 2
  /\ capture[0] = "done"
  /\ capture[1] = "failed"
  /\ toast = "failed"

\* the stages of the raw-frame job after the audio stage
RawAfterAudio ==
  { "seek", "sleep10", "toCanvas", "writeFrame", "execFinal", "readOutput" }

(* C18: when the source has no audio track or the extraction fails, so that *)
(* no audio file was made, the job goes on as a silent one: from the audio  *)
(* stage on it counts audio as present, and so gives the audio input to the *)
(* final encoder command, only when the audio file exists.                  *)
C18_NoAudioFallsBackToSilent ==
  pc \in RawAfterAudio => (audioExists => AudioFile \in fs)

(* C19: during cleanup a failure to delete one file does not stop the      *)
(* deletion of the others: when the cleanup is over, every file on its list *)
(* has been attempted.                                                      *)
C19_CleanupToleratesFailures ==
  clnPc \in { "done", "caught" } =>
    clnAttempted = Range(CleanupOrder(clnNumFrames))

(* C21: when the encoder subprocess cannot be launched (the spawn error is  *)
(* raised), the request's result is a failure: the caller has not been      *)
(* given the success (video) response for that request.                     *)
C21_SpawnFailureIsFailure ==
  srvStreamError.kind = "spawn" => srvResponse.status # 200

\* a stream that has been ended or destroyed stays as it is
TerminatedStreamStays ==
  srvStream \in { "ended", "destroyed" } =>
    (srvStream' = srvStream /\ srvStreamError' = srvStreamError)

\* the video response was returned and its body was then failed
VideoThenFailure == srvResponse.status = 200 /\ srvStream = "destroyed"

(* C22: a request yields exactly one of video and failure: it never has     *)
(* both returned the success (video) response and failed the body of that   *)
(* same response, and a stream that has been ended or destroyed is not      *)
(* terminated a second time.                                                *)
C22_ExactlyOneOutcome ==
  [](~ VideoThenFailure) /\ [][TerminatedStreamStays]_vars

(* C26: no render job writes to the embedded encoder or runs a command on   *)
(* it before the module has finished loading: a job is under way, or a file *)
(* is in the encoder's filesystem, only when loading is over; a download    *)
(* click that comes earlier starts nothing.                                 *)
C26_NoJobBeforeLoad ==
  (pc # "idle" \/ isRendering \/ fs # { }) => ffmpegLoaded

C26_Witness ==
  /\ toast = "notReady"
  /\ pc = "writeSource"
  /\ ffmpegLoaded

\* FracLt(a, b): a < b, for fractions with positive denominators
FracLt(a, b) == a.n * b.d < b.n * a.d

(* C28: two render jobs are never active at once on one encoder instance:   *)
(* as long as a job still has writes, commands or deletions to issue on the *)
(* encoder's filesystem, the guard of handleDownload (isRendering) keeps a  *)
(* further download click from starting another job on the same file names. *)
C28_JobsExclusive ==
  pc \notin { "idle", "done" } => isRendering

(* C30: a progress event moves the reported progress only as completion of  *)
(* the encode stage: during the audio extraction and the frame capture the  *)
(* reported value stays below the encode range, which starts at 75, and     *)
(* while no job is running it stays 0.                                      *)
C30_ProgressOnlyFromEncode ==
  /\ pc \in { "fetchFile", "writeSource", "execAudio", "readAudio", "sleep40",
              "sleep10" }
       => FracLt(renderProgress, Frac(75, 1))
  /\ pc \in { "idle", "cleanup", "done" } => FracIs(renderProgress, 0)

\* the renderer's between(x, min, max): 1 when min <= x <= max
Between(x, min, max) == min <= x /\ x <= max

\* whether the draw operation is enabled at time t: enable='between(t,s,e)'
EnabledAt(filter, t) == Between(t, filter.startTime, filter.endTime)

(* C29: the server-side backend shows a segment over the same window as the *)
(* client-side sampler: for every segment of a rendered request and every   *)
(* time t, its draw operation is enabled at t exactly when                  *)
(* startTime <= t < endTime (stated for segments with                       *)
(* 0 <= startTime < endTime).                                               *)
C29_SameWindowAsSampler ==
  \A k \in DOMAIN srvFilters : \A t \in SrvTimes :
    LET seg == [startTime |-> srvBody.segments[k].startTime.num,
                endTime |-> srvBody.segments[k].endTime.num]
    IN (0 <= seg.startTime /\ seg.startTime < seg.endTime) =>
         (EnabledAt(srvFilters[k], t) <=> IsActive(seg, t))

(* C24: a user-initiated abort raised while the sampler is running is      *)
(* honoured: after it the job writes no frame, issues no encode or mux      *)
(* command and does not complete; it goes to its cleanup.                   *)
C24_CancelStopsSampler ==
  unmounted =>
    /\ pc \notin EncodeStages
    /\ toast # "complete"

(* C27: the encoder module is loaded at most once in a client session and  *)
(* one loaded instance, with one progress listener, serves every job, also  *)
(* the jobs started after the user has picked a different media file.       *)
C27_LoadedOncePerSession ==
  /\ Len(sesInst) <= 1
  /\ \A i \in DOMAIN sesInst : sesInst[i].listeners <= 1
  /\ \A j, k \in DOMAIN sesJobs : sesJobs[j] = sesJobs[k]

(* C23: both copies run from spawn until close: while the response is      *)
(* being read and the subprocess has not closed, the job is never stuck,    *)
(* and whenever a pipe is full some step that drains the pipeline (the      *)
(* subprocess, the copy of stdout, the reader) can be taken.                *)
C23_NoPipeDeadlock ==
  (pipConsumer = "reading" /\ pipProc \in { "running", "exited" }) =>
    /\ ENABLED PipeProgress
    /\ (pipStdin = PipCap \/ pipStdout = PipCap) =>
         ENABLED (ProcStep \/ PumpOut \/ Consume)

C23_Witness ==
  /\ pipConsumer = "reading"
  /\ pipProc = "running"
  /\ pipSource > 0
  /\ pipStdin = PipCap
  /\ pipStdout = PipCap
  /\ pipPass = PipCap

(* C25: when the consumer of the response has aborted while the subprocess  *)
(* is running, the subprocess is terminated: it is never left running with  *)
(* no step that could still be taken.                                       *)
C25_NoOrphanEncoder ==
  (pipConsumer = "aborted" /\ pipProc = "running") => ENABLED PipeProgress

----------------------------------------------------------------------------
(* Claims about the order of the escaping steps *)

\* what one character of the input becomes when every step acts on the
\* input's own characters only: a backslash doubled, a quote, colon or
\* percent sign with the backslashes the escaper puts around it
DrawtextImage(c) ==
  CASE c = BS -> << BS, BS >>
    [] c = QT -> << QT, BS, QT, QT >>
    [] c = ":" -> << BS, ":" >>
    [] c = "%" -> << BS, "%" >>
    [] OTHER -> << c >>

TextImage(c) ==
  CASE c = BS -> << BS, BS >>
    [] c = QT -> << BS, BS, BS, BS, BS, QT >>
    [] c = ":" -> << BS, BS, ":" >>
    [] c = "%" -> << BS, BS, "%" >>
    [] OTHER -> << c >>

\* the images of the characters k..Len(s) of s, in order
RECURSIVE DrawtextImagesFrom(_, _)
DrawtextImagesFrom(s, k) ==
  IF k > Len(s) THEN << >>
  ELSE DrawtextImage(s[k]) \o DrawtextImagesFrom(s, k + 1)

RECURSIVE TextImagesFrom(_, _)
TextImagesFrom(s, k) ==
  IF k > Len(s) THEN << >>
  ELSE TextImage(s[k]) \o TextImagesFrom(s, k + 1)

\* C31: the escaper handles backslash first: its output is the input with
\* every backslash doubled exactly once and every quote, colon and percent
\* sign replaced by its escaped form, and no backslash written by one step
\* is changed by a later step (route.ts escapeFFmpegDrawtext and the earlier
\* escapeFFmpegText).
C31_BackslashDoubledOnce ==
  escPc \in { "escaped", "built" } =>
    /\ escText = DrawtextImagesFrom(escRaw, 1)
    /\ escapeFFmpegText(escRaw) = TextImagesFrom(escRaw, 1)

----------------------------------------------------------------------------
(* Claims about the encode stage of the client-side render job *)

\* one step of the job seen from the encode stage: where a command may start
\* from and what follows the end of each command
EncodeStageOrder ==
  /\ (pc' = "execEncode" /\ pc # "execEncode") =>
       /\ pc = IF numFrames = 0 THEN "awaitAll" ELSE "writeFrame"
       /\ \A k \in 0..(numFrames - 1) : FrameFile(k) \in fs'
  /\ (pc = "execEncode" /\ pc' \notin { "execEncode", "cleanup" }) =>
       pc' = IF audioExists THEN "execMux" ELSE "rename"
  /\ (pc' = "execMux" /\ pc # "execMux") => (pc = "execEncode" /\ audioExists)
  /\ (pc' = "rename" /\ pc # "rename") => (pc = "execEncode" /\ ~audioExists)
  /\ (pc = "rename" /\ pc' = "readOutput") =>
       (VideoOnlyFile \in fs /\ OutputFile \in fs' /\ VideoOnlyFile \notin fs')
  /\ (pc' = "readOutput" /\ pc # "readOutput") =>
       pc = IF audioExists THEN "execMux" ELSE "rename"

\* C32: once every frame is written the job issues the frame-sequence encode
\* command; when it has finished the mux command follows exactly when an
\* audio track was extracted, and otherwise the intermediate video is
\* renamed to the final file; the final file is read only after the mux
\* command, or the rename, has finished.
C32_EncodeThenMuxIffAudio == [][EncodeStageOrder]_vars

C32_Witness ==
  /\ pc = "readOutput"
  /\ audioExists
  /\ numFrames > 0
  /\ OutputFile \in fs

----------------------------------------------------------------------------
(* Claims about the duration of a client-side render job *)

\* the job that starts in this step takes the media's duration when the
\* element knows it, and the largest endTime of the segments otherwise
JobStartsWithKnownDuration ==
  HandleDownload =>
    duration' = IF elementDuration > 0 THEN elementDuration
                ELSE MaxEndFrom(data, 1, 0)

\* C33: the duration a client-side job counts its frames from is the media's
\* duration whenever that is known (finite and positive) when the job
\* starts, and max(endTime) over the segments otherwise; a value computed
\* before the media's duration was known is not used once it is known.
C33_JobUsesKnownMediaDuration == [][JobStartsWithKnownDuration]_vars

----------------------------------------------------------------------------
(* Claims about the filter-graph builder *)

\* where the draw operations of the expression start
DrawtextStarts == { i \in 1..Len(escExpr) : escExpr[i] = "drawtext" }

\* the start of the k-th draw operation
KthStart(k) ==
  CHOOSE i \in DrawtextStarts :
    Cardinality({ j \in DrawtextStarts : j < i }) = k - 1

\* the k-th draw operation: up to the separator before the next one
KthOperation(k) ==
  SubSeq(escExpr, KthStart(k),
         IF k < Cardinality(DrawtextStarts) THEN KthStart(k + 1) - 2
         ELSE Len(escExpr))

\* the font file a segment asks for: its family in lower case, the default
\* family when it names none
RequestedFontPath(seg) ==
  IF seg.fontFamily = "Lobster" THEN BldFontMap["lobster"]
  ELSE BldFontMap["roboto-bold"]

\* C34: the expression holds exactly one draw operation per segment, the
\* k-th one carrying the k-th segment's escaped text, its font file and its
\* start and end time, with the separator between neighbours: the
\* operations stand in the order of the segment list.
C34_OneOperationPerSegmentInOrder ==
  escPc = "joined" =>
    /\ Cardinality(DrawtextStarts) = Len(escSegs)
    /\ Len(escSegs) > 0 => KthStart(1) = 1
    /\ \A k \in 1..Len(escSegs) :
         /\ KthOperation(k) =
              DrawtextFilter(
                escapeWindowsPathForFFmpeg(RequestedFontPath(escSegs[k])),
                escapeFFmpegDrawtext(escSegs[k].text),
                escSegs[k].startTime, escSegs[k].endTime)
         /\ k > 1 => escExpr[KthStart(k) - 1] = ","

C34_Witness ==
  /\ escPc = "joined"
  /\ Len(escSegs) = 2
  /\ escSegs[1] # escSegs[2]
  /\ escSegs[1].text = << ",", QT >>

----------------------------------------------------------------------------
(* Claims about failures of the subprocess's input *)

\* C35: a write error on the subprocess's stdin, raised when the subprocess
\* has exited or closed its stdin while the source is still being copied,
\* is handled by the job: it is never an 'error' event with no listener.
C35_StdinWriteErrorHandled == pipStdinError # "unhandled"

\* C36: after the source media stream has failed part-way, the job comes to
\* an end: until the subprocess has closed there is always a step left for
\* the job, the streams or the subprocess to take, so that stdin gets
\* closed and neither the subprocess nor the response stays open for ever.
C36_SourceFailureEndsJob ==
  (pipSourceError /\ pipProc # "closed") => ENABLED FaultProgress

----------------------------------------------------------------------------
(* Claims about the playback controls during a render job *)

\* C37: while a job samples its frames only the sampler sets the displayed
\* segments and the media position: isPlaying is not set, by a play request
\* that was pending when the job started or otherwise; the media position is
\* the frame's time; and between a frame's overlay update and its capture
\* the displayed segments are the ones active at the frame's time.
C37_OnlySamplerActsWhileSampling ==
  pc \in { "sleep40", "sleep10" } =>
    /\ ~isPlaying
    /\ mediaTime = FrameTime(frame)
    /\ pc = "sleep10" => currentSegments = ActiveAt(data, FrameTime(frame))

----------------------------------------------------------------------------
(* Claims about the job that hides the media element *)

\* C38: when the job that hides the media element has ended, on success, on
\* a failed capture or on any other error, the element is visible again.
C38_VisibilityRestored ==
  (pc = "cleanup" /\ ~isRendering) => mediaOpacity = "1"

----------------------------------------------------------------------------
(* Claims about the end of the client-side render job *)

\* the component is idle again: no job is flagged as running, the progress
\* bar is at 0 and the status message is empty
BackToIdle ==
  /\ ~isRendering
  /\ FracIs(renderProgress, 0)
  /\ renderMessage = ""

\* C39: every job that starts comes back to idle, on success and on every
\* failure: once it is started its finally block is reached, and from then
\* on the rendering flag is cleared, the progress is 0 and the status
\* message is empty.
C39_JobReturnsToIdle ==
  /\ isRendering ~> BackToIdle
  /\ [](pc \in { "cleanup", "done" } => BackToIdle)

C39_Witness ==
  /\ pc = "done"
  /\ toast = "failed"
  /\ numFrames > 0
  /\ BackToIdle

====
